---- MODULE Spec2Model ----
(***************************************************************************)
(* Model of mastra-observer-mailbox.                                       *)
(*                                                                         *)
(* InMemoryMailboxStore (src/src/store.ts): the per-thread message arrays, *)
(* the per-thread snapshot arrays and the store configuration, with one    *)
(* action per public method.  Arrays are sequences (JavaScript index i is  *)
(* TLA+ index i+1), the two Maps are functions whose DOMAIN is the set of  *)
(* keys, null is the value Null, an absent optional field of QueryOptions  *)
(* is a key missing from the record's DOMAIN.  Confidence values are       *)
(* hundredths (90 stands for 0.9).  sentAtTime (wall clock) is carried by  *)
(* the store untouched and read by none of its methods; it is left out.    *)
(* op, ret and removed record the last call: its method, what it returned  *)
(* and the messages it evicted (send) or collected (gc).  stored records,  *)
(* per thread, every snapshot handed to storeSnapshot since the thread's   *)
(* log was last cleared.                                                   *)
(*                                                                         *)
(* RetentionManager (retention.ts): manager is the configuration a         *)
(* RetentionManager was constructed with, input the array handed to apply, *)
(* and ret the RetentionResult apply returned.  apply reads type,          *)
(* contentHash, confidence and sentAtStep of a message and nothing else;   *)
(* the messages carry these and an id that tells the objects apart.        *)
(* managers holds the RetentionManagers constructed side by side, and      *)
(* defaultPolicies the exported array DEFAULT_RETENTION_POLICIES, which a   *)
(* manager constructed without policies holds by reference.                *)
(*                                                                         *)
(* ObserverRegistry (observer-registry.ts), the retry loops of             *)
(* ObserverMiddleware.executeObservers (middleware.ts) and of              *)
(* dispatchToObservers (primitives/context.ts), and transformParams and    *)
(* afterGenerate of the middleware: an async function is a sequence of     *)
(* actions, one per stretch between two awaits; dispatch, exec and caller  *)
(* hold the locals and the position of the functions in flight, calls logs *)
(* the calls made to handlers, callbacks, timers and the registry, and     *)
(* injected the messages transformParams put into a prompt.                *)
(***************************************************************************)
EXTENDS Integers, Sequences, FiniteSets, TLC

VARIABLES
    config,     \* InMemoryMailboxStore.config
    messages,   \* InMemoryMailboxStore.messages : Map<ThreadId, MailboxMessage[]>
    snapshots,  \* InMemoryMailboxStore.snapshots : Map<ThreadId, StepSnapshot[]>
    nextId,     \* number of ids generateMessageId has handed out, plus one
    op,         \* the method that ran last ("init" after construction)
    ret,        \* what that method returned (Null for void)
    removed,    \* the messages the last send evicted or the last gc collected
    stored,     \* per thread, the snapshots storeSnapshot was called with
    manager,    \* RetentionManager.config and RetentionManager.policyMap
    input,      \* the messages handed to RetentionManager.apply
    registry,   \* ObserverRegistry: handlers, continueOnError, onObserverError
    dispatch,   \* the locals of the ObserverRegistry.dispatch that is running
    trigger,    \* the retry options: maxRetries, retryDelayMs, onError
    exec,       \* the locals of the executeObservers / execute that is running
    calls,      \* the calls made since the outermost call began, in order
    now,        \* the clock, in milliseconds
    caller,     \* the call of afterGenerate / dispatchToObservers: pending or settled
    stepStates, \* ObserverMiddleware.stepStates: thread -> state of the step
    injection,  \* InjectionConfig: maxMessagesPerTurn, minConfidence
    defaultPolicies, \* the array DEFAULT_RETENTION_POLICIES
    managers,   \* the RetentionManagers constructed, in order
    injected    \* the messages transformParams put into a prompt, with the step

vars == <<config, messages, snapshots, nextId, op, ret, removed, stored,
          manager, input, registry, dispatch, trigger, exec, calls, now,
          caller, stepStates, injection, defaultPolicies, managers, injected>>

---------------------------------------------------------------------------
(* Bounds of the model *)

\* sentAtStep, atStep and currentStep range over 0..MaxStep
MaxStep == 2
\* at most MaxSends messages are accepted in one run
MaxSends == 3
\* at most MaxSnapshots snapshots are stored to a thread between two clears
MaxSnapshots == 3
\* RetentionManager.apply is handed at most MaxInput messages
MaxInput == 3
\* a retry loop is configured with at most MaxRetries retries
MaxRetries == 2
\* at most MaxHandlers handlers are registered
MaxHandlers == 3
\* at most MaxRegistrations calls of register and unregister are made on a
\* registry that is not dispatching
MaxRegistrations == 4
\* at most MaxManagers RetentionManagers are constructed
MaxManagers == 3

---------------------------------------------------------------------------
(* Values *)

\* null
Null == -1

Threads == {"thread-1", "thread-2"}
Steps == 0 .. MaxStep
Agents == {"observer-1"}

\* What an observer sends: content, type, confidence and requested expiry.
Payloads ==
    { [content |-> "a", type |-> "insight", confidence |-> 90, expiresAtStep |-> Null],
      [content |-> "b", type |-> "warning", confidence |-> 50, expiresAtStep |-> 1] }

\* The configurations the store is constructed with.
Configs ==
    { [dedupeWindowSteps |-> 1, maxMessagesPerThread |-> 2,
       snapshotRetentionSteps |-> 1, defaultTtlSteps |-> 2],
      [dedupeWindowSteps |-> 0, maxMessagesPerThread |-> 1,
       snapshotRetentionSteps |-> 0, defaultTtlSteps |-> 1],
      [dedupeWindowSteps |-> 1, maxMessagesPerThread |-> 0,
       snapshotRetentionSteps |-> 1, defaultTtlSteps |-> 2] }

SendMessageInput(t, a, s, p) ==
    [threadId |-> t, from |-> a, sentAtStep |-> s, type |-> p.type,
     content |-> p.content, confidence |-> p.confidence,
     expiresAtStep |-> p.expiresAtStep]

\* The messages the observers send: any payload at any step to thread-1, and
\* one message to thread-2.
SendMessageInputs ==
    { SendMessageInput("thread-1", a, s, p) : a \in Agents, s \in Steps, p \in Payloads }
    \cup
    { SendMessageInput("thread-2", a, 1, p) :
        a \in Agents, p \in {q \in Payloads : q.content = "a"} }

---------------------------------------------------------------------------
(* Helpers standing for JavaScript built-ins *)

\* Map.get(key) ?? []
GetOrEmpty(map, key) == IF key \in DOMAIN map THEN map[key] ELSE <<>>

\* Map.set(key, value)
MapSet(map, key, value) ==
    [k \in (DOMAIN map) \cup {key} |-> IF k = key THEN value ELSE map[k]]

\* Map.delete(key)
MapDelete(map, key) == [k \in (DOMAIN map) \ {key} |-> map[k]]

\* new Map()
EmptyMap == [k \in {} |-> <<>>]

\* Array.prototype.filter
RECURSIVE FilterSeq(_, _)
FilterSeq(s, keep) ==
    IF s = <<>> THEN <<>>
    ELSE (IF Head(s) \in keep THEN <<Head(s)>> ELSE <<>>) \o FilterSeq(Tail(s), keep)

\* Array.prototype.splice(idx, 1), idx a TLA+ index
RemoveAt(s, idx) == SubSeq(s, 1, idx - 1) \o SubSeq(s, idx + 1, Len(s))

\* Array.prototype.indexOf (messages are distinct objects, told apart by id)
IndexOf(s, m) == CHOOSE i \in 1 .. Len(s) : s[i].id = m.id /\ \A j \in 1 .. (i - 1) : s[j].id # m.id

Range(s) == { s[i] : i \in 1 .. Len(s) }

Min(a, b) == IF a < b THEN a ELSE b
Max(a, b) == IF a > b THEN a ELSE b

\* Array.prototype.slice(begin, end): a negative index counts from the end
RelativeIndex(s, k) == IF k < 0 THEN Max(Len(s) + k, 0) ELSE Min(k, Len(s))
ArraySlice(s, begin, end) == SubSeq(s, RelativeIndex(s, begin) + 1, RelativeIndex(s, end))
\* Array.prototype.slice(begin)
ArraySliceFrom(s, begin) == SubSeq(s, RelativeIndex(s, begin) + 1, Len(s))

\* {} : an object with no field
EmptyRecord == [k \in {} |-> Null]

\* The comparators handed to Array.prototype.sort
Compare(how, a, b) ==
    CASE how = "sentAtStepAsc" -> a.sentAtStep - b.sentAtStep
      [] how = "query" ->
            IF b.confidence # a.confidence
            THEN b.confidence - a.confidence
            ELSE b.sentAtStep - a.sentAtStep
      [] how = "newest" -> b.sentAtStep - a.sentAtStep
      [] how = "oldest" -> a.sentAtStep - b.sentAtStep
      [] how = "highest-confidence" ->
            IF b.confidence # a.confidence
            THEN b.confidence - a.confidence
            ELSE b.sentAtStep - a.sentAtStep
      [] how = "confidenceDesc" -> b.confidence - a.confidence
      [] how = "priorityDesc" -> b.priority - a.priority

\* Array.prototype.sort is stable: an element moves in front of another only
\* when the comparator says it is strictly smaller.
RECURSIVE InsertSorted(_, _, _)
InsertSorted(how, sorted, m) ==
    IF sorted = <<>> THEN <<m>>
    ELSE IF Compare(how, m, sorted[Len(sorted)]) < 0
         THEN Append(InsertSorted(how, SubSeq(sorted, 1, Len(sorted) - 1), m),
                     sorted[Len(sorted)])
         ELSE Append(sorted, m)

RECURSIVE ArraySort(_, _)
ArraySort(how, s) ==
    IF s = <<>> THEN <<>>
    ELSE InsertSorted(how, ArraySort(how, SubSeq(s, 1, Len(s) - 1)), s[Len(s)])

---------------------------------------------------------------------------
(* store.ts *)

\* sha256(content) in hex, first 16 digits
computeContentHash(content) ==
    CASE content = "a" -> "ca978112ca1bbdca"
      [] content = "b" -> "3e23e8160039594a"
      [] content = "c" -> "2e7d2c03a9507ae2"

\* crypto.randomUUID(): never the same id twice
generateMessageId == nextId

\* isDuplicate testing the messages of every thread
isDuplicateAnyThread(threadMessages, message) ==
    \E t \in DOMAIN messages : \E i \in 1 .. Len(messages[t]) :
        /\ messages[t][i].contentHash = computeContentHash(message.content)
        /\ messages[t][i].sentAtStep >= message.sentAtStep - config.dedupeWindowSteps

\* isDuplicate with the window's lower end excluded (> instead of >=)
isDuplicateWindowExclusive(threadMessages, message) ==
    \E i \in 1 .. Len(threadMessages) :
        /\ threadMessages[i].contentHash = computeContentHash(message.content)
        /\ threadMessages[i].sentAtStep > message.sentAtStep - config.dedupeWindowSteps

\* send: the duplicate test
isDuplicate(threadMessages, message) ==
    \E i \in 1 .. Len(threadMessages) :
        /\ threadMessages[i].contentHash = computeContentHash(message.content)
        /\ threadMessages[i].sentAtStep >= message.sentAtStep - config.dedupeWindowSteps

\* fullMessage with the default lifetime whatever the candidate asks for
fullMessageDefaultTtl(message) ==
    [ id |-> generateMessageId,
      threadId |-> message.threadId,
      from |-> message.from,
      sentAtStep |-> message.sentAtStep,
      type |-> message.type,
      content |-> message.content,
      confidence |-> message.confidence,
      contentHash |-> computeContentHash(message.content),
      incorporatedAtStep |-> Null,
      expiresAtStep |-> message.sentAtStep + config.defaultTtlSteps ]

\* send: the stored message
fullMessage(message) ==
    [ id |-> generateMessageId,
      threadId |-> message.threadId,
      from |-> message.from,
      sentAtStep |-> message.sentAtStep,
      type |-> message.type,
      content |-> message.content,
      confidence |-> message.confidence,
      contentHash |-> computeContentHash(message.content),
      incorporatedAtStep |-> Null,
      expiresAtStep |-> IF message.expiresAtStep # Null
                        THEN message.expiresAtStep
                        ELSE message.sentAtStep + config.defaultTtlSteps ]

\* evictOne without the preference for incorporated messages
evictOneOldestOfAll(msgs) ==
    LET sortedMsgs == ArraySort("sentAtStepAsc", msgs)
    IN  RemoveAt(sortedMsgs, 1)

\* enforceMaxMessages: one pass of the loop body, on an array above the limit
evictOne(msgs) ==
    LET incorporated == FilterSeq(msgs, {m \in Range(msgs) : m.incorporatedAtStep # Null})
    IN  IF Len(incorporated) > 0
        THEN \* the filtered copy is sorted, the thread's array keeps its order
             LET oldest == ArraySort("sentAtStepAsc", incorporated)[1]
             IN  RemoveAt(msgs, IndexOf(msgs, oldest))
        ELSE \* messages.sort sorts the thread's array in place
             LET sortedMsgs == ArraySort("sentAtStepAsc", msgs)
                 oldest == sortedMsgs[1]
             IN  RemoveAt(sortedMsgs, IndexOf(sortedMsgs, oldest))

\* enforceMaxMessages with the loop guard off by one (length > max + 1)
enforceMaxMessagesLate(msgs) ==
    IF Len(msgs) > config.maxMessagesPerThread + 1 THEN evictOne(msgs) ELSE msgs

\* enforceMaxMessages with the loop guard length >= max
RECURSIVE enforceMaxMessagesEager(_)
enforceMaxMessagesEager(msgs) ==
    IF msgs # <<>> /\ Len(msgs) >= config.maxMessagesPerThread
    THEN enforceMaxMessagesEager(evictOne(msgs))
    ELSE msgs

\* enforceMaxMessages: the array after the while loop
RECURSIVE enforceMaxMessages(_)
enforceMaxMessages(msgs) ==
    IF Len(msgs) > config.maxMessagesPerThread
    THEN enforceMaxMessages(evictOne(msgs))
    ELSE msgs

\* send: the thread's array when the call returns
sendThreadMessages(message) ==
    LET threadMessages == GetOrEmpty(messages, message.threadId)
    IN  enforceMaxMessages(Append(threadMessages, fullMessage(message)))

\* sendMessagesAfter with the message pushed before the duplicate test
sendMessagesAfterPushFirst(message) ==
    MapSet(messages, message.threadId, sendThreadMessages(message))

\* send: the message map when the call returns
sendMessagesAfter(message) ==
    IF isDuplicate(GetOrEmpty(messages, message.threadId), message)
    THEN messages
    ELSE MapSet(messages, message.threadId, sendThreadMessages(message))

\* send(message)
Send(message) ==
    LET threadMessages == GetOrEmpty(messages, message.threadId)
        accepted == ~isDuplicate(threadMessages, message)
    IN  /\ ~accepted \/ nextId <= MaxSends
        /\ messages' = sendMessagesAfter(message)
        /\ nextId' = IF accepted THEN nextId + 1 ELSE nextId
        /\ ret' = accepted
        /\ op' = "send"
        /\ removed' = IF accepted
                      THEN Range(Append(threadMessages, fullMessage(message)))
                              \ Range(GetOrEmpty(messages', message.threadId))
                      ELSE {}
        /\ UNCHANGED <<config, snapshots, stored, manager, input,
                   registry, dispatch, trigger, exec, calls, now,
                   caller, stepStates, injection, defaultPolicies, managers, injected>>

\* storeSnapshotLog with the oldest snapshot dropped at length >= limit
storeSnapshotLogShiftEarly(snapshot) ==
    LET pushed == Append(GetOrEmpty(snapshots, snapshot.threadId), snapshot)
    IN  IF Len(pushed) >= config.snapshotRetentionSteps THEN Tail(pushed) ELSE pushed

\* storeSnapshot: the thread's array when the call returns
storeSnapshotLog(snapshot) ==
    LET pushed == Append(GetOrEmpty(snapshots, snapshot.threadId), snapshot)
    IN  IF Len(pushed) > config.snapshotRetentionSteps
        THEN Tail(pushed)      \* shift()
        ELSE pushed

\* storeSnapshot(snapshot)
StoreSnapshot(snapshot) ==
    LET threadSnapshots == storeSnapshotLog(snapshot)
    IN  /\ snapshots' = MapSet(snapshots, snapshot.threadId, threadSnapshots)
        /\ op' = "storeSnapshot"
        /\ ret' = Null
        /\ removed' = {}
        /\ stored' = MapSet(stored, snapshot.threadId,
                            Append(GetOrEmpty(stored, snapshot.threadId), snapshot))
        /\ UNCHANGED <<config, messages, nextId, manager, input,
                   registry, dispatch, trigger, exec, calls, now,
                   caller, stepStates, injection, defaultPolicies, managers, injected>>

\* queryFilter without the test of status "incorporated"
queryFilterNoIncorporatedTest(m, opts) ==
    LET currentStep == IF "newerThanStep" \in DOMAIN opts THEN opts.newerThanStep ELSE 0
    IN  /\ ~("status" \in DOMAIN opts /\ opts.status = "pending"
                /\ m.incorporatedAtStep # Null)
        /\ ~("minConfidence" \in DOMAIN opts /\ m.confidence < opts.minConfidence)
        /\ ~("types" \in DOMAIN opts /\ m.type \notin opts.types)
        /\ ~("newerThanStep" \in DOMAIN opts /\ m.sentAtStep <= opts.newerThanStep)
        /\ ~(m.expiresAtStep # Null /\ m.expiresAtStep <= currentStep)

\* queryFilter without the test of expiry
queryFilterNoExpiryTest(m, opts) ==
    /\ ~("status" \in DOMAIN opts /\ opts.status = "pending"
            /\ m.incorporatedAtStep # Null)
    /\ ~("status" \in DOMAIN opts /\ opts.status = "incorporated"
            /\ m.incorporatedAtStep = Null)
    /\ ~("minConfidence" \in DOMAIN opts /\ m.confidence < opts.minConfidence)
    /\ ~("types" \in DOMAIN opts /\ m.type \notin opts.types)
    /\ ~("newerThanStep" \in DOMAIN opts /\ m.sentAtStep <= opts.newerThanStep)

\* query: the predicate handed to filter
queryFilter(m, opts) ==
    LET currentStep == IF "newerThanStep" \in DOMAIN opts THEN opts.newerThanStep ELSE 0
    IN  /\ ~("status" \in DOMAIN opts /\ opts.status = "pending"
                /\ m.incorporatedAtStep # Null)
        /\ ~("status" \in DOMAIN opts /\ opts.status = "incorporated"
                /\ m.incorporatedAtStep = Null)
        /\ ~("minConfidence" \in DOMAIN opts /\ m.confidence < opts.minConfidence)
        /\ ~("types" \in DOMAIN opts /\ m.type \notin opts.types)
        /\ ~("newerThanStep" \in DOMAIN opts /\ m.sentAtStep <= opts.newerThanStep)
        /\ ~(m.expiresAtStep # Null /\ m.expiresAtStep <= currentStep)

\* query with the limit applied before the sort
queryLimitBeforeSort(threadId, opts) ==
    LET msgs == GetOrEmpty(messages, threadId)
        filtered == FilterSeq(msgs, {m \in Range(msgs) : queryFilter(m, opts)})
    IN  IF "limit" \in DOMAIN opts
        THEN ArraySort("query", ArraySlice(filtered, 0, opts.limit))
        ELSE ArraySort("query", filtered)

\* query(threadId, opts): the list returned
query(threadId, opts) ==
    LET msgs == GetOrEmpty(messages, threadId)
        filtered == FilterSeq(msgs, {m \in Range(msgs) : queryFilter(m, opts)})
        sorted == ArraySort("query", filtered)
    IN  IF "limit" \in DOMAIN opts THEN ArraySlice(sorted, 0, opts.limit) ELSE sorted

\* queryMessagesAfter with the thread's own array sorted
queryMessagesAfterSortInPlace(threadId, opts) ==
    MapSet(messages, threadId, ArraySort("query", GetOrEmpty(messages, threadId)))

\* query: the store's message map when the call returns (filter copies the
\* thread's array, and the copy is what gets sorted)
queryMessagesAfter(threadId, opts) == messages

Query(threadId, opts) ==
    /\ op' = "query"
    /\ ret' = query(threadId, opts)
    /\ messages' = queryMessagesAfter(threadId, opts)
    /\ removed' = {}
    /\ UNCHANGED <<config, snapshots, nextId, stored, manager, input,
                   registry, dispatch, trigger, exec, calls, now,
                   caller, stepStates, injection, defaultPolicies, managers, injected>>

\* markMessage taking the mark back from a message marked at the same step
markMessageToggling(m, messageIds, atStep) ==
    IF m.id \in messageIds
    THEN [m EXCEPT !.incorporatedAtStep = IF @ = atStep THEN Null ELSE atStep]
    ELSE m

\* markIncorporated: one message after the call
markMessage(m, messageIds, atStep) ==
    IF m.id \in messageIds THEN [m EXCEPT !.incorporatedAtStep = atStep] ELSE m

\* markIncorporated: the message map after the call, from the map before it
markIncorporatedMessages(map, messageIds, atStep) ==
    [t \in DOMAIN map |->
        [i \in 1 .. Len(map[t]) |-> markMessage(map[t][i], messageIds, atStep)]]

\* markIncorporated(messageIds, atStep)
MarkIncorporated(messageIds, atStep) ==
    /\ messages' = markIncorporatedMessages(messages, messageIds, atStep)
    /\ op' = "markIncorporated"
    /\ ret' = Null
    /\ removed' = {}
    /\ UNCHANGED <<config, snapshots, nextId, stored, manager, input,
                   registry, dispatch, trigger, exec, calls, now,
                   caller, stepStates, injection, defaultPolicies, managers, injected>>

\* getSnapshots(threadId, limit): the list returned
getSnapshots(threadId, limit) ==
    ArraySliceFrom(GetOrEmpty(snapshots, threadId), 0 - limit)

GetSnapshots(threadId, limit) ==
    /\ op' = "getSnapshots"
    /\ ret' = getSnapshots(threadId, limit)
    /\ removed' = {}
    /\ UNCHANGED <<config, messages, snapshots, nextId, stored, manager, input,
                   registry, dispatch, trigger, exec, calls, now,
                   caller, stepStates, injection, defaultPolicies, managers, injected>>

\* gcKeeps with expiry tested by < instead of <=
gcKeepsExpiringNow(m, currentStep) ==
    /\ ~(m.expiresAtStep # Null /\ m.expiresAtStep < currentStep)
    /\ ~(m.incorporatedAtStep # Null
            /\ m.incorporatedAtStep < currentStep - config.snapshotRetentionSteps)

\* gc: the predicate handed to filter
gcKeeps(m, currentStep) ==
    /\ ~(m.expiresAtStep # Null /\ m.expiresAtStep <= currentStep)
    /\ ~(m.incorporatedAtStep # Null
            /\ m.incorporatedAtStep < currentStep - config.snapshotRetentionSteps)

\* gc: the message map after the call, from the map before it
gcMessages(map, threadId, currentStep) ==
    IF threadId \notin DOMAIN map
    THEN map
    ELSE MapSet(map, threadId,
                FilterSeq(map[threadId],
                          {m \in Range(map[threadId]) : gcKeeps(m, currentStep)}))

\* gc(threadId, currentStep)
Gc(threadId, currentStep) ==
    /\ messages' = gcMessages(messages, threadId, currentStep)
    /\ op' = "gc"
    /\ ret' = Null
    /\ removed' = Range(GetOrEmpty(messages, threadId)) \ Range(GetOrEmpty(messages', threadId))
    /\ UNCHANGED <<config, snapshots, nextId, stored, manager, input,
                   registry, dispatch, trigger, exec, calls, now,
                   caller, stepStates, injection, defaultPolicies, managers, injected>>

\* clearThread(threadId)
ClearThread(threadId) ==
    /\ messages' = MapDelete(messages, threadId)
    /\ snapshots' = MapDelete(snapshots, threadId)
    /\ stored' = MapDelete(stored, threadId)
    /\ op' = "clearThread"
    /\ ret' = Null
    /\ removed' = {}
    /\ UNCHANGED <<config, nextId, manager, input,
                   registry, dispatch, trigger, exec, calls, now,
                   caller, stepStates, injection, defaultPolicies, managers, injected>>

\* clear()
Clear ==
    /\ messages' = EmptyMap
    /\ snapshots' = EmptyMap
    /\ stored' = EmptyMap
    /\ op' = "clear"
    /\ ret' = Null
    /\ removed' = {}
    /\ UNCHANGED <<config, nextId, manager, input,
                   registry, dispatch, trigger, exec, calls, now,
                   caller, stepStates, injection, defaultPolicies, managers, injected>>

---------------------------------------------------------------------------
(* retention.ts *)

\* MessageType
MessageTypes == {"insight", "correction", "warning", "context"}

\* DEFAULT_RETENTION_POLICIES
DEFAULT_RETENTION_POLICIES ==
    << [type |-> "insight", maxCount |-> 5, dedupe |-> TRUE,
        priority |-> "highest-confidence"],
       [type |-> "correction", maxCount |-> 3, dedupe |-> TRUE, priority |-> "newest"],
       [type |-> "warning", maxCount |-> 3, dedupe |-> TRUE, priority |-> "newest"],
       [type |-> "context", maxCount |-> 2, dedupe |-> TRUE, priority |-> "newest"] >>

\* DEFAULT_RETENTION_CONFIG, as the constructor files it: policyMap built
\* from config.policies, config.defaultPolicy, config.globalMaxMessages
DEFAULT_RETENTION_CONFIG ==
    [ policyMap |->
        [ type \in MessageTypes |->
            CASE type = "insight" ->
                    [type |-> type, maxCount |-> 5, dedupe |-> TRUE,
                     priority |-> "highest-confidence"]
              [] type = "correction" ->
                    [type |-> type, maxCount |-> 3, dedupe |-> TRUE, priority |-> "newest"]
              [] type = "warning" ->
                    [type |-> type, maxCount |-> 3, dedupe |-> TRUE, priority |-> "newest"]
              [] type = "context" ->
                    [type |-> type, maxCount |-> 2, dedupe |-> TRUE, priority |-> "newest"] ],
      defaultPolicy |-> [maxCount |-> 5, dedupe |-> TRUE, priority |-> "newest"],
      globalMaxMessages |-> 15 ]

\* groupByType: the keys of the Map, in the order they were first set
RECURSIVE groupKeys(_)
groupKeys(msgs) ==
    IF msgs = <<>> THEN <<>>
    ELSE LET before == groupKeys(SubSeq(msgs, 1, Len(msgs) - 1))
             type == msgs[Len(msgs)].type
         IN  IF type \in Range(before) THEN before ELSE Append(before, type)

\* groupByType: the array filed under each key
groupByType(msgs) ==
    [ type \in Range(groupKeys(msgs)) |->
        FilterSeq(msgs, { m \in Range(msgs) : m.type = type }) ]

\* getPolicy(type)
getPolicy(type) ==
    IF type \in DOMAIN manager.policyMap
    THEN manager.policyMap[type]
    ELSE IF "defaultPolicy" \in DOMAIN manager
         THEN [k \in {"type"} |-> type] @@ manager.defaultPolicy
         ELSE [type |-> type, maxCount |-> 5, dedupe |-> FALSE, priority |-> "newest"]

\* filterByConfidence with the failing messages dropped from the result
filterByConfidenceDropFailing(msgs, minConfidence) ==
    [ passing |-> FilterSeq(msgs, { m \in Range(msgs) : m.confidence >= minConfidence }),
      failing |-> <<>> ]

\* filterByConfidence(messages, minConfidence)
filterByConfidence(msgs, minConfidence) ==
    [ passing |-> FilterSeq(msgs, { m \in Range(msgs) : m.confidence >= minConfidence }),
      failing |-> FilterSeq(msgs, { m \in Range(msgs) : ~(m.confidence >= minConfidence) }) ]

\* deduplicate: the loop over the sorted copy, seen being the Set of hashes
RECURSIVE deduplicateLoop(_, _, _)
deduplicateLoop(sorted, seen, acc) ==
    IF sorted = <<>> THEN acc
    ELSE LET message == Head(sorted)
         IN  IF message.contentHash \in seen
             THEN deduplicateLoop(Tail(sorted), seen,
                                  [acc EXCEPT !.duplicates = Append(@, message)])
             ELSE deduplicateLoop(Tail(sorted), seen \cup {message.contentHash},
                                  [acc EXCEPT !.unique = Append(@, message)])

\* deduplicate with the copy sorted oldest first
deduplicateOldestFirst(msgs) ==
    deduplicateLoop(ArraySort("oldest", msgs), {}, [unique |-> <<>>, duplicates |-> <<>>])

\* deduplicate(messages)
deduplicate(msgs) ==
    deduplicateLoop(ArraySort("newest", msgs), {}, [unique |-> <<>>, duplicates |-> <<>>])

\* sortByPriority returning the copy unsorted
sortByPriorityUnsorted(msgs, priority) == msgs

\* sortByPriority(messages, priority)
sortByPriority(msgs, priority) == ArraySort(priority, msgs)

\* applyPolicy(messages, policy)
applyPolicy(msgs, policy) ==
    LET byConfidence ==
            IF "minConfidence" \in DOMAIN policy
            THEN filterByConfidence(msgs, policy.minConfidence)
            ELSE [passing |-> msgs, failing |-> <<>>]
        byDedup ==
            IF "dedupe" \in DOMAIN policy /\ policy.dedupe
            THEN deduplicate(byConfidence.passing)
            ELSE [unique |-> byConfidence.passing, duplicates |-> <<>>]
        sorted ==
            sortByPriority(byDedup.unique,
                           IF "priority" \in DOMAIN policy THEN policy.priority ELSE "newest")
        over == "maxCount" \in DOMAIN policy /\ Len(sorted) > policy.maxCount
        excess == IF over THEN ArraySliceFrom(sorted, policy.maxCount) ELSE <<>>
    IN  [ keep |-> IF over THEN ArraySlice(sorted, 0, policy.maxCount) ELSE sorted,
          cull |-> byConfidence.failing \o byDedup.duplicates \o excess,
          dedupCulled |-> Len(byDedup.duplicates),
          confidenceCulled |-> Len(byConfidence.failing) ]

\* Array.prototype.flat on an array of arrays
RECURSIVE Flat(_)
Flat(arrays) == IF arrays = <<>> THEN <<>> ELSE Head(arrays) \o Flat(Tail(arrays))

\* the sum of an array of numbers (stats.x += y in a loop)
RECURSIVE Sum(_)
Sum(numbers) == IF numbers = <<>> THEN 0 ELSE Head(numbers) + Sum(Tail(numbers))

\* apply(messages): the RetentionResult
apply(msgs) ==
    LET keys == groupKeys(msgs)
        byType == groupByType(msgs)
        perType == [i \in 1 .. Len(keys) |-> applyPolicy(byType[keys[i]], getPolicy(keys[i]))]
        keep == Flat([i \in 1 .. Len(keys) |-> perType[i].keep])
        cull == Flat([i \in 1 .. Len(keys) |-> perType[i].cull])
        capped == /\ "globalMaxMessages" \in DOMAIN manager
                  /\ manager.globalMaxMessages # 0
                  /\ Len(keep) > manager.globalMaxMessages
        sortedKeep == ArraySort("confidenceDesc", keep)
        finalKeep == IF capped
                     THEN ArraySlice(sortedKeep, 0, manager.globalMaxMessages)
                     ELSE keep
        finalCull == IF capped
                     THEN cull \o ArraySliceFrom(sortedKeep, manager.globalMaxMessages)
                     ELSE cull
    IN  [ keep |-> finalKeep,
          cull |-> finalCull,
          stats |->
            [ totalInput |-> Len(msgs),
              totalKept |-> Len(finalKeep),
              culledByType |->
                [ type \in MessageTypes \cup Range(keys) |->
                    IF type \in Range(keys)
                    THEN Len(applyPolicy(byType[type], getPolicy(type)).cull)
                    ELSE 0 ],
              culledByDedup |-> Sum([i \in 1 .. Len(keys) |-> perType[i].dedupCulled]),
              culledByConfidence |->
                    Sum([i \in 1 .. Len(keys) |-> perType[i].confidenceCulled]) ] ]

\* apply(messages)
Apply ==
    /\ op' = "apply"
    /\ ret' = apply(input)
    /\ UNCHANGED <<config, messages, snapshots, nextId, removed, stored, manager, input,
                   registry, dispatch, trigger, exec, calls, now,
                   caller, stepStates, injection, defaultPolicies, managers, injected>>

\* new RetentionManager(config): this.config.policies is the array of
\* DEFAULT_RETENTION_CONFIG itself when config names no policies (the spread
\* copies the reference), and the caller's array otherwise; ref tells which,
\* own holds the caller's array
RetentionManager(cfg) ==
    LET policies == IF "policies" \in DOMAIN cfg THEN cfg.policies ELSE defaultPolicies
    IN  [ ref |-> IF "policies" \in DOMAIN cfg THEN "own" ELSE "DEFAULT_RETENTION_POLICIES",
          own |-> IF "policies" \in DOMAIN cfg THEN cfg.policies ELSE <<>>,
          policyMap |->
            [ type \in { policies[i].type : i \in 1 .. Len(policies) } |->
                LET last == CHOOSE i \in 1 .. Len(policies) :
                                /\ policies[i].type = type
                                /\ \A j \in 1 .. Len(policies) :
                                      policies[j].type = type => j <= i
                IN  policies[last] ] ]

\* this.config.policies of a manager
configPolicies(m) == IF m.ref = "own" THEN m.own ELSE defaultPolicies

\* getPolicy(type) of a manager constructed without a defaultPolicy of its own
getPolicyOf(m, type) ==
    IF type \in DOMAIN m.policyMap
    THEN m.policyMap[type]
    ELSE [k \in {"type"} |-> type] @@ DEFAULT_RETENTION_CONFIG.defaultPolicy

\* setPolicy: the array this.config.policies after the call
setPolicyArray(policies, policy) ==
    IF \E i \in 1 .. Len(policies) : policies[i].type = policy.type
    THEN LET existing == CHOOSE i \in 1 .. Len(policies) :
                            /\ policies[i].type = policy.type
                            /\ \A j \in 1 .. (i - 1) : policies[j].type # policy.type
         IN  [policies EXCEPT ![existing] = policy]
    ELSE Append(policies, policy)

\* new RetentionManager(cfg)
NewManager(cfg) ==
    /\ managers' = Append(managers, RetentionManager(cfg))
    /\ op' = "newManager"
    /\ ret' = Null
    /\ UNCHANGED <<config, messages, snapshots, nextId, removed, stored, manager, input,
                   registry, dispatch, trigger, exec, calls, now,
                   caller, stepStates, injection, defaultPolicies, injected>>

\* setPolicy(policy) on the k-th manager
SetPolicy(k, policy) ==
    LET m == managers[k]
        array == setPolicyArray(configPolicies(m), policy)
    IN  /\ managers' =
              [managers EXCEPT
                 ![k] = [m EXCEPT !.policyMap = MapSet(@, policy.type, policy),
                                  !.own = IF m.ref = "own" THEN array ELSE @]]
        /\ defaultPolicies' = IF m.ref = "own" THEN defaultPolicies ELSE array
        /\ op' = "setPolicy"
        /\ ret' = Null
        /\ UNCHANGED <<config, messages, snapshots, nextId, removed, stored, manager, input,
                       registry, dispatch, trigger, exec, calls, now,
                       caller, stepStates, injection, injected>>

---------------------------------------------------------------------------
(* observer-registry.ts *)

\* ObserverHandler: what dispatch reads of it.  filter, when the handler has
\* one, is what the predicate answers for the snapshot; failures is the
\* number of its first invocations on which handle throws; messages and
\* skipRemainingObservers are the ObserverResult handle returns otherwise.
ObserverHandler(id, priority, kind) ==
    [id |-> id, priority |-> priority] @@ kind

\* handle throws on every invocation a retry loop can make
AlwaysFails == MaxRetries + 2

\* new ObserverRegistry({store, continueOnError, onObserverError}):
\* no handler registered
ObserverRegistry(continueOnError, onObserverError) ==
    [handlers |-> <<>>, continueOnError |-> continueOnError,
     onObserverError |-> onObserverError]

\* the DispatchResult dispatch starts from
EmptyDispatchResult ==
    [observersRun |-> 0, messagesSent |-> 0, observersSkipped |-> <<>>,
     errors |-> <<>>, shortCircuited |-> FALSE]

\* no dispatch is running
IdleDispatch ==
    [pc |-> "idle", threadId |-> "", handlers |-> <<>>, i |-> 0, j |-> 0,
     result |-> EmptyDispatchResult]

\* getHandlers returning the Map's values in insertion order
getHandlersUnsorted(handlers) == handlers

\* getHandlers(): the Map's values sorted by priority, highest first
getHandlers(handlers) == ArraySort("priorityDesc", handlers)

\* an entry of the log of the calls made to the handlers, the store and the
\* callbacks
Call(call, id, detail) == [call |-> call, id |-> id, detail |-> detail]

\* the number of invocations of handle of a handler the log holds
Invocations(log, id) ==
    Cardinality({ k \in 1 .. Len(log) : log[k].call = "handle" /\ log[k].id = id })

\* dispatchFullMessage handing the handler's message on as it is
dispatchFullMessageAsGiven(message, threadId, handler) == message

\* dispatch: the message handed to store.send
dispatchFullMessage(message, threadId, handler) ==
    [message EXCEPT !.threadId = threadId,
                    !.from = IF message.from # "" THEN message.from ELSE handler.id]

\* dispatch: the locals after the loop moved on from handler i
dispatchContinue(d) ==
    IF d.i + 1 > Len(d.handlers)
    THEN [d EXCEPT !.pc = "done", !.i = d.i + 1, !.j = 0]
    ELSE [d EXCEPT !.pc = "loop", !.i = d.i + 1, !.j = 0]

\* dispatchAfterMessages with the flag set and the loop carried on
dispatchAfterMessagesNoBreak(d, handler) ==
    IF handler.skipRemainingObservers
    THEN dispatchContinue([d EXCEPT !.result.shortCircuited = TRUE])
    ELSE dispatchContinue(d)

\* dispatch: the locals after handler i's messages were sent: break when
\* the handler asked to skip the remaining observers
dispatchAfterMessages(d, handler) ==
    IF handler.skipRemainingObservers
    THEN [d EXCEPT !.pc = "done", !.j = 0, !.result.shortCircuited = TRUE]
    ELSE dispatchContinue(d)

\* no executeObservers and no dispatchToObservers is running
IdleExec ==
    [pc |-> "idle", attempt |-> 0, attempts |-> 0, lastError |-> Null, wakeAt |-> 0,
     snapshot |-> Null]

\* maxRetries and retryDelayMs when the TriggerConfig / DispatchOptions leave
\* them out, and no onError callback; the loop is executeObservers around an
\* onTrigger callback that does not fail
DefaultRetry ==
    [maxRetries |-> 0, retryDelayMs |-> 100, onError |-> FALSE,
     target |-> "onTrigger", failures |-> 0, await |-> FALSE]

\* the error register throws
AlreadyRegistered(id) == [error |-> "already registered", id |-> id]

\* registerThrows for a register that accepts every id
registerThrowsNever(handlers, handler) == FALSE

\* register: this.handlers.has(handler.id)
registerThrows(handlers, handler) ==
    \E k \in 1 .. Len(handlers) : handlers[k].id = handler.id

\* this.handlers.set(handler.id, handler): a Map keeps the position of a key
\* it holds already, and appends a new one
handlersSet(handlers, handler) ==
    IF \E k \in 1 .. Len(handlers) : handlers[k].id = handler.id
    THEN [k \in 1 .. Len(handlers) |->
            IF handlers[k].id = handler.id THEN handler ELSE handlers[k]]
    ELSE Append(handlers, handler)

\* this.handlers.delete(id)
handlersDelete(handlers, id) ==
    FilterSeq(handlers, { h \in Range(handlers) : h.id # id })

\* register(handler): ret is TRUE for the unregister function returned, and
\* the error when register throws
Register(handler) ==
    /\ dispatch.pc = "idle"
    /\ exec.pc = "idle"
    /\ IF registerThrows(registry.handlers, handler)
       THEN /\ UNCHANGED registry
            /\ op' = "registerThrew"
            /\ ret' = AlreadyRegistered(handler.id)
       ELSE /\ registry' = [registry EXCEPT !.handlers = handlersSet(@, handler)]
            /\ op' = "register"
            /\ ret' = TRUE
    /\ calls' = Append(calls, Call("register", handler.id, handler))
    /\ UNCHANGED <<config, messages, snapshots, nextId, removed, stored, manager, input,
                   dispatch, trigger, exec, now,
                   caller, stepStates, injection, defaultPolicies, managers, injected>>

\* unregister(id): ret is what Map.delete returns
Unregister(id) ==
    /\ dispatch.pc = "idle"
    /\ exec.pc = "idle"
    /\ registry' = [registry EXCEPT !.handlers = handlersDelete(@, id)]
    /\ op' = "unregister"
    /\ ret' = (\E k \in 1 .. Len(registry.handlers) : registry.handlers[k].id = id)
    /\ calls' = Append(calls, Call("unregister", id, ret'))
    /\ UNCHANGED <<config, messages, snapshots, nextId, removed, stored, manager, input,
                   dispatch, trigger, exec, now,
                   caller, stepStates, injection, defaultPolicies, managers, injected>>

\* dispatchAfterError for a dispatch that stops at every error
dispatchAfterErrorAlwaysThrows(d) == [d EXCEPT !.pc = "threw"]

\* dispatch: if (!this.continueOnError) throw err; otherwise the loop goes on
dispatchAfterError(d) ==
    IF registry.continueOnError THEN dispatchContinue(d) ELSE [d EXCEPT !.pc = "threw"]

\* filterRejects for a dispatch that consults no filter
filterRejectsNever(handler) == FALSE

\* dispatch: handler.filter && !handler.filter(snapshot)
filterRejects(handler) == "filter" \in DOMAIN handler /\ ~handler.filter

\* dispatch(snapshot): up to the first iteration of the loop
dispatchStart(snapshot) ==
    LET handlers == getHandlers(registry.handlers)
    IN  [pc |-> IF handlers = <<>> THEN "done" ELSE "loop",
         threadId |-> snapshot.threadId, handlers |-> handlers, i |-> 1, j |-> 0,
         result |-> EmptyDispatchResult]

\* dispatch(snapshot), called by the application
Dispatch(snapshot) ==
    /\ dispatch.pc = "idle"
    /\ exec.pc = "idle"
    /\ dispatch' = dispatchStart(snapshot)
    /\ calls' = <<>>
    /\ op' = "dispatching"
    /\ ret' = Null
    /\ UNCHANGED <<config, messages, snapshots, nextId, removed, stored, manager, input,
                   registry, trigger, exec, now,
                   caller, stepStates, injection, defaultPolicies, managers, injected>>

\* dispatch: one iteration of the loop, up to the first store.send
DispatchHandler ==
    /\ dispatch.pc = "loop"
    /\ LET handler == dispatch.handlers[dispatch.i]
           id == handler.id
       IN  IF filterRejects(handler)
           THEN /\ dispatch' = dispatchContinue(
                        [dispatch EXCEPT !.result.observersSkipped = Append(@, id)])
                /\ calls' = Append(calls, Call("filter", id, FALSE))
           ELSE LET filtered == IF "filter" \in DOMAIN handler
                                THEN Append(calls, Call("filter", id, TRUE))
                                ELSE calls
                    invoked == Append(filtered, Call("handle", id, dispatch.threadId))
                IN  IF Invocations(calls, id) < handler.failures
                    THEN \* handle threw
                         /\ calls' = IF registry.onObserverError
                                     THEN Append(invoked, Call("onObserverError", id,
                                                               dispatch.threadId))
                                     ELSE invoked
                         /\ dispatch' =
                              LET d == [dispatch EXCEPT
                                          !.result.errors =
                                              Append(@, [observerId |-> id,
                                                         error |-> Invocations(invoked, id)])]
                              IN  dispatchAfterError(d)
                    ELSE \* handle returned an ObserverResult
                         /\ calls' = invoked
                         /\ dispatch' =
                              LET d == [dispatch EXCEPT !.result.observersRun = @ + 1]
                              IN  IF Len(handler.messages) > 0
                                  THEN [d EXCEPT !.pc = "sending", !.j = 1]
                                  ELSE dispatchAfterMessages(d, handler)
    /\ op' = "dispatching"
    /\ ret' = Null
    /\ UNCHANGED <<config, messages, snapshots, nextId, removed, stored, manager, input,
                   registry, trigger, exec, now,
                   caller, stepStates, injection, defaultPolicies, managers, injected>>

\* dispatchCountSend counting every message handed to the store
dispatchCountEverySend(d, accepted) == [d EXCEPT !.result.messagesSent = @ + 1]

\* dispatch: if (this.store.send(fullMessage)) result.messagesSent++
dispatchCountSend(d, accepted) ==
    IF accepted THEN [d EXCEPT !.result.messagesSent = @ + 1] ELSE d

\* dispatch: one store.send of the inner loop
DispatchSend ==
    /\ dispatch.pc = "sending"
    /\ LET handler == dispatch.handlers[dispatch.i]
           fullMsg == dispatchFullMessage(handler.messages[dispatch.j],
                                          dispatch.threadId, handler)
           threadMessages == GetOrEmpty(messages, fullMsg.threadId)
           accepted == ~isDuplicate(threadMessages, fullMsg)
           d == dispatchCountSend(dispatch, accepted)
       IN  /\ messages' = sendMessagesAfter(fullMsg)
           /\ nextId' = IF accepted THEN nextId + 1 ELSE nextId
           /\ removed' = IF accepted
                         THEN Range(Append(threadMessages, fullMessage(fullMsg)))
                                 \ Range(GetOrEmpty(messages', fullMsg.threadId))
                         ELSE {}
           /\ calls' = Append(calls, Call("send", handler.id,
                                          [message |-> fullMsg, accepted |-> accepted]))
           /\ dispatch' = IF dispatch.j < Len(handler.messages)
                          THEN [d EXCEPT !.j = @ + 1]
                          ELSE dispatchAfterMessages(d, handler)
    /\ op' = "dispatching"
    /\ ret' = Null
    /\ UNCHANGED <<config, snapshots, stored, manager, input, registry, trigger, exec, now,
                   caller, stepStates, injection, defaultPolicies, managers, injected>>

\* dispatch: return result
DispatchReturn ==
    /\ dispatch.pc = "done"
    /\ exec.pc = "idle"
    /\ op' = "dispatch"
    /\ ret' = dispatch.result
    /\ dispatch' = IdleDispatch
    /\ UNCHANGED <<config, messages, snapshots, nextId, removed, stored, manager, input,
                   registry, trigger, exec, calls, now,
                   caller, stepStates, injection, defaultPolicies, managers, injected>>

\* dispatch: throw err (continueOnError is false)
DispatchThrow ==
    /\ dispatch.pc = "threw"
    /\ exec.pc = "idle"
    /\ op' = "dispatchThrew"
    /\ ret' = dispatch.result.errors
    /\ dispatch' = IdleDispatch
    /\ UNCHANGED <<config, messages, snapshots, nextId, removed, stored, manager, input,
                   registry, trigger, exec, calls, now,
                   caller, stepStates, injection, defaultPolicies, managers, injected>>

---------------------------------------------------------------------------
(* middleware.ts executeObservers and context.ts dispatchToObservers: the
   retry loop around one call of the registry's dispatch, of the onTrigger
   callback, or of the handler passed to dispatchToObservers *)

\* retryDelay without the backoff
retryDelayConstant(attempt) == trigger.retryDelayMs

\* const delay = baseDelayMs * Math.pow(2, attempt)
retryDelay(attempt) == trigger.retryDelayMs * (2 ^ attempt)

\* how late the timer of sleep may fire, in milliseconds
TimerLateness == {0, 1}

\* "All retries exhausted": the report of lastError, to onError when there
\* is one and to console.error otherwise
execReport(e, err) ==
    Call(IF trigger.onError THEN "onError" ELSE "console.error", trigger.target,
         [error |-> err, snapshot |-> e.snapshot, attempts |-> e.attempts])

\* execFailed that reports every failed attempt
execFailedReportsEach(e, err, log) ==
    IF e.attempt < trigger.maxRetries
    THEN [exec |-> [e EXCEPT !.pc = "sleeping", !.lastError = err,
                             !.wakeAt = now + retryDelay(e.attempt)],
          calls |-> log \o <<execReport(e, err),
                             Call("sleep", trigger.target, retryDelay(e.attempt))>>]
    ELSE [exec |-> [e EXCEPT !.pc = "idle", !.lastError = err],
          calls |-> Append(log, execReport(e, err))]

\* the catch block of the loop and, after the last attempt, the report: the
\* locals and the log of calls when the loop suspends or the function
\* returns
execFailed(e, err, log) ==
    IF e.attempt < trigger.maxRetries
    THEN [exec |-> [e EXCEPT !.pc = "sleeping", !.lastError = err,
                             !.wakeAt = now + retryDelay(e.attempt)],
          calls |-> Append(log, Call("sleep", trigger.target, retryDelay(e.attempt)))]
    ELSE [exec |-> [e EXCEPT !.pc = "idle", !.lastError = err],
          calls |-> Append(log, execReport(e, err))]

\* execSucceeded that goes on to the next attempt
execSucceededRetries(e) ==
    IF e.attempt < trigger.maxRetries
    THEN [e EXCEPT !.pc = "attempt", !.attempt = @ + 1]
    ELSE [e EXCEPT !.pc = "idle"]

\* "return; // Success"
execSucceeded(e) == [e EXCEPT !.pc = "idle"]

\* executeObservers(snapshot) / execute(): the locals when the loop is
\* entered
executeObservers(snapshot) ==
    [pc |-> IF 0 <= trigger.maxRetries THEN "attempt" ELSE "idle",
     attempt |-> 0, attempts |-> 0, lastError |-> Null, wakeAt |-> 0,
     snapshot |-> snapshot]

\* one pass of the loop, up to its first suspension: the call of the
\* registry's dispatch, or the call of the single callback with what follows
\* its return or its throw
ExecAttempt ==
    /\ exec.pc = "attempt"
    /\ LET e == [exec EXCEPT !.attempts = exec.attempt + 1]
       IN  IF trigger.target = "registry"
           THEN /\ exec' = [e EXCEPT !.pc = "awaiting"]
                /\ dispatch' = dispatchStart(exec.snapshot)
                /\ UNCHANGED calls
           ELSE LET invoked == Append(calls, Call("handle", trigger.target, now))
                    err == [observerId |-> trigger.target,
                            error |-> Invocations(invoked, trigger.target)]
                IN  /\ IF Invocations(calls, trigger.target) < trigger.failures
                       THEN /\ exec' = execFailed(e, err, invoked).exec
                            /\ calls' = execFailed(e, err, invoked).calls
                       ELSE /\ exec' = execSucceeded(e)
                            /\ calls' = invoked
                    /\ UNCHANGED dispatch
    /\ op' = IF exec'.pc = "idle" THEN "executeObservers" ELSE "executing"
    /\ ret' = IF exec'.pc = "idle" THEN exec'.attempts ELSE Null
    /\ UNCHANGED <<config, messages, snapshots, nextId, removed, stored, manager, input,
                   registry, trigger, now,
                   caller, stepStates, injection, defaultPolicies, managers, injected>>

\* await this.registry.dispatch(snapshot) resolved
ExecDispatchReturned ==
    /\ exec.pc = "awaiting"
    /\ dispatch.pc = "done"
    /\ exec' = execSucceeded(exec)
    /\ dispatch' = IdleDispatch
    /\ op' = IF exec'.pc = "idle" THEN "executeObservers" ELSE "executing"
    /\ ret' = IF exec'.pc = "idle" THEN exec'.attempts ELSE Null
    /\ UNCHANGED <<config, messages, snapshots, nextId, removed, stored, manager, input,
                   registry, trigger, calls, now,
                   caller, stepStates, injection, defaultPolicies, managers, injected>>

\* await this.registry.dispatch(snapshot) rejected
ExecDispatchThrew ==
    /\ exec.pc = "awaiting"
    /\ dispatch.pc = "threw"
    /\ LET err == dispatch.result.errors[Len(dispatch.result.errors)]
       IN  /\ exec' = execFailed(exec, err, calls).exec
           /\ calls' = execFailed(exec, err, calls).calls
    /\ dispatch' = IdleDispatch
    /\ op' = IF exec'.pc = "idle" THEN "executeObservers" ELSE "executing"
    /\ ret' = IF exec'.pc = "idle" THEN exec'.attempts ELSE Null
    /\ UNCHANGED <<config, messages, snapshots, nextId, removed, stored, manager, input,
                   registry, trigger, now,
                   caller, stepStates, injection, defaultPolicies, managers, injected>>

\* await this.sleep(delay) resolved: the timer fired, and the loop goes on
\* to attempt++
ExecWake ==
    /\ exec.pc = "sleeping"
    /\ \E late \in TimerLateness : now' = exec.wakeAt + late
    /\ exec' = [exec EXCEPT !.pc = "attempt", !.attempt = @ + 1]
    /\ op' = "executing"
    /\ ret' = Null
    /\ UNCHANGED <<config, messages, snapshots, nextId, removed, stored, manager, input,
                   registry, dispatch, trigger, calls,
                   caller, stepStates, injection, defaultPolicies, managers, injected>>

---------------------------------------------------------------------------
(* middleware.ts transformParams and afterGenerate; context.ts
   dispatchToObservers: the calls around the retry loop *)

\* shouldAwait with the trigger's mode ignored: the caller never waits
shouldAwaitNever == FALSE

\* `const shouldAwait = opts?.await ?? false` of dispatchToObservers, and
\* `this.trigger.async` negated of afterGenerate: trigger.await holds the
\* option, FALSE when it was left out
shouldAwait == trigger.await

\* no call of afterGenerate or dispatchToObservers has been made
IdleCaller == [pc |-> "idle", threadId |-> "", stepNumber |-> 0]

\* DEFAULT_INJECTION_CONFIG: what query is handed of it, confidences in
\* hundredths
DEFAULT_INJECTION_CONFIG == [maxMessagesPerTurn |-> 3, minConfidence |-> 60]

\* transformParams: the pending messages queried for injection
transformParamsPending(threadId) ==
    query(threadId, [status |-> "pending", minConfidence |-> injection.minConfidence,
                     limit |-> injection.maxMessagesPerTurn])

\* transformParams(threadId, stepNumber, prompt): ret is the list of
\* messages formatted into the prompt
TransformParams(threadId, stepNumber) ==
    LET pending == transformParamsPending(threadId)
    IN  /\ stepStates' = MapSet(stepStates, threadId,
                                [stepNumber |-> stepNumber,
                                 pendingMessageIds |->
                                    [k \in 1 .. Len(pending) |-> pending[k].id]])
        /\ injected' = injected \cup
                           { [id |-> pending[k].id, stepNumber |-> stepNumber] :
                               k \in 1 .. Len(pending) }
        /\ op' = "transformParams"
        /\ ret' = pending
        /\ removed' = {}
        /\ UNCHANGED <<config, messages, snapshots, nextId, stored, manager, input,
                       registry, dispatch, trigger, exec, calls, now,
                       caller, injection, defaultPolicies, managers>>

\* afterGenerateMarked for an afterGenerate that marks nothing
afterGenerateMarkedNothing(state) == messages

\* afterGenerate: the message map after "Mark messages as incorporated"
afterGenerateMarked(state) ==
    IF Len(state.pendingMessageIds) > 0
    THEN markIncorporatedMessages(messages, Range(state.pendingMessageIds),
                                  state.stepNumber)
    ELSE messages

\* afterGenerate(threadId, response).  With trigger.async the function runs
\* to its end without suspending: executeObservers is entered and left
\* behind at its first await, then come gc and stepStates.delete.  Without
\* it the function suspends on executeObservers.
AfterGenerate(threadId) ==
    /\ caller.pc # "awaiting"
    /\ exec.pc = "idle"
    /\ dispatch.pc = "idle"
    /\ trigger.target \in {"onTrigger", "registry"}
    /\ IF threadId \notin DOMAIN stepStates
       THEN /\ caller' = [pc |-> "resolved", threadId |-> threadId, stepNumber |-> 0]
            /\ op' = "afterGenerate"
            /\ removed' = {}
            /\ UNCHANGED <<messages, snapshots, stored, exec, calls, now, stepStates>>
       ELSE LET state == stepStates[threadId]
                marked == afterGenerateMarked(state)
                snapshot == [threadId |-> threadId, stepNumber |-> state.stepNumber]
            IN  /\ snapshots' = MapSet(snapshots, threadId, storeSnapshotLog(snapshot))
                /\ stored' = MapSet(stored, threadId,
                                    Append(GetOrEmpty(stored, threadId), snapshot))
                /\ exec' = executeObservers(snapshot)
                /\ calls' = <<>>
                /\ now' = 0
                /\ IF shouldAwait
                   THEN /\ messages' = marked
                        /\ caller' = [pc |-> "awaiting", threadId |-> threadId,
                                      stepNumber |-> state.stepNumber]
                        /\ op' = "executing"
                        /\ UNCHANGED stepStates
                   ELSE /\ messages' = gcMessages(marked, threadId, state.stepNumber)
                        /\ caller' = [pc |-> "resolved", threadId |-> threadId,
                                      stepNumber |-> state.stepNumber]
                        /\ op' = "afterGenerate"
                        /\ stepStates' = MapDelete(stepStates, threadId)
                /\ removed' = Range(GetOrEmpty(messages, threadId))
                                 \ Range(GetOrEmpty(messages', threadId))
    /\ ret' = Null
    /\ UNCHANGED <<config, nextId, manager, input, registry, dispatch, trigger,
                   injection, defaultPolicies, managers, injected>>

\* afterGenerate, from the end of `await this.executeObservers(snapshot)`:
\* gc and stepStates.delete, or the rejection handed on
AfterGenerateResume ==
    /\ caller.pc = "awaiting"
    /\ trigger.target \in {"onTrigger", "registry"}
    /\ exec.pc \in {"idle", "rejected"}
    /\ IF exec.pc = "rejected"
       THEN /\ caller' = [caller EXCEPT !.pc = "rejected"]
            /\ UNCHANGED <<messages, stepStates>>
       ELSE /\ caller' = [caller EXCEPT !.pc = "resolved"]
            /\ messages' = gcMessages(messages, caller.threadId, caller.stepNumber)
            /\ stepStates' = MapDelete(stepStates, caller.threadId)
    /\ removed' = Range(GetOrEmpty(messages, caller.threadId))
                     \ Range(GetOrEmpty(messages', caller.threadId))
    /\ exec' = [exec EXCEPT !.pc = "idle"]
    /\ op' = "afterGenerate"
    /\ ret' = Null
    /\ UNCHANGED <<config, snapshots, nextId, stored, manager, input, registry, dispatch,
                   trigger, calls, now, injection, defaultPolicies, managers, injected>>

\* dispatchToObservers(snapshot, handler, opts): execute() is entered; with
\* opts.await the function suspends on it, without it the function returns
DispatchToObservers(snapshot) ==
    /\ caller.pc # "awaiting"
    /\ exec.pc = "idle"
    /\ trigger.target = "handler"
    /\ exec' = executeObservers(snapshot)
    /\ calls' = <<>>
    /\ now' = 0
    /\ caller' = [pc |-> IF shouldAwait THEN "awaiting" ELSE "resolved",
                  threadId |-> snapshot.threadId, stepNumber |-> snapshot.stepNumber]
    /\ op' = IF shouldAwait THEN "executing" ELSE "dispatchToObservers"
    /\ ret' = Null
    /\ UNCHANGED <<config, messages, snapshots, nextId, removed, stored, manager, input,
                   registry, dispatch, trigger, stepStates, injection, defaultPolicies,
                   managers, injected>>

\* dispatchToObservers, from the end of `await execute()`
DispatchToObserversResume ==
    /\ caller.pc = "awaiting"
    /\ trigger.target = "handler"
    /\ exec.pc \in {"idle", "rejected"}
    /\ caller' = [caller EXCEPT !.pc = IF exec.pc = "rejected" THEN "rejected"
                                                                ELSE "resolved"]
    /\ exec' = [exec EXCEPT !.pc = "idle"]
    /\ op' = "dispatchToObservers"
    /\ ret' = Null
    /\ UNCHANGED <<config, messages, snapshots, nextId, removed, stored, manager, input,
                   registry, dispatch, trigger, calls, now, stepStates, injection,
                   defaultPolicies, managers, injected>>

---------------------------------------------------------------------------
(* The calls the driving loop and the observers make *)

\* StepSnapshot: the fields the store reads, and the step it was taken at
StepSnapshot(t, n) == [threadId |-> t, stepNumber |-> n]

\* The snapshot offered while messages are exchanged: the one of the last
\* step of thread-1, once.
StepSnapshots ==
    { StepSnapshot(t, MaxStep) : t \in {"thread-1"} \ DOMAIN stored }

\* QueryOptions: every combination of present and absent fields
OptField(key, values) == {EmptyRecord} \cup { [k \in {key} |-> v] : v \in values }

\* the filters other than status
QueryFilters ==
    { b @@ c @@ d :
        b \in OptField("minConfidence", {90}),
        c \in OptField("types", {{"insight"}}),
        d \in OptField("newerThanStep", {1}) }

QueryStatuses == OptField("status", {"pending", "incorporated", "all"})

QueryLimits == OptField("limit", {0, 1, 2, 3})

\* the queries the callers issue in a run
IssuedQueries == { [status |-> "pending"], [status |-> "all", limit |-> 1] }

\* The sends offered in a state.  thread-2 is the second conversation: its
\* message comes either before every other message or as the last one.
SendsOffered ==
    { m \in SendMessageInputs : m.threadId = "thread-1" \/ nextId \in {1, MaxSends} }

MessageIdSets == { {i} : i \in 1 .. MaxSends } \cup { 1 .. MaxSends }

\* the steps at which the consumer marks messages
MarkSteps == {0, MaxStep}

---------------------------------------------------------------------------

Init ==
    /\ config \in Configs
    /\ messages = EmptyMap
    /\ snapshots = EmptyMap
    /\ nextId = 1
    /\ op = "init"
    /\ ret = Null
    /\ removed = {}
    /\ stored = EmptyMap
    /\ manager = DEFAULT_RETENTION_CONFIG
    /\ input = <<>>
    /\ registry = ObserverRegistry(TRUE, FALSE)
    /\ dispatch = IdleDispatch
    /\ trigger = DefaultRetry
    /\ exec = IdleExec
    /\ calls = <<>>
    /\ now = 0
    /\ caller = IdleCaller
    /\ stepStates = EmptyMap
    /\ injection = DEFAULT_INJECTION_CONFIG
    /\ defaultPolicies = DEFAULT_RETENTION_POLICIES
    /\ managers = <<>>
    /\ injected = {}

Next ==
    \/ \E message \in SendsOffered : Send(message)
    \/ \E snapshot \in StepSnapshots : StoreSnapshot(snapshot)
    \/ \E opts \in IssuedQueries : Query("thread-1", opts)
    \/ \E messageIds \in MessageIdSets, atStep \in MarkSteps : MarkIncorporated(messageIds, atStep)
    \/ GetSnapshots("thread-1", 1)
    \/ \E threadId \in Threads, currentStep \in Steps : Gc(threadId, currentStep)
    \/ \E threadId \in Threads : ClearThread(threadId)
    \/ Clear

Spec == Init /\ [][Next]_vars

---------------------------------------------------------------------------
(* The snapshot logs on their own: every thread's steps are snapshotted in *)
(* order, and the observers read the logs with every limit.               *)

DEFAULT_MAILBOX_CONFIG ==
    [dedupeWindowSteps |-> 5, maxMessagesPerThread |-> 50,
     snapshotRetentionSteps |-> 10, defaultTtlSteps |-> 10]

\* DEFAULT_MAILBOX_CONFIG with snapshotRetentionSteps overridden
SnapshotConfigs ==
    { [DEFAULT_MAILBOX_CONFIG EXCEPT !.snapshotRetentionSteps = r] :
        r \in 0 .. (MaxSnapshots - 1) }

\* the snapshot of the next step of each thread
SnapshotsOffered ==
    { StepSnapshot(t, Len(GetOrEmpty(stored, t)) + 1) :
        t \in { u \in Threads : Len(GetOrEmpty(stored, u)) < MaxSnapshots } }

\* the limits getSnapshots is called with
SnapshotLimits == 0 .. MaxSnapshots

\* the steps gc is called with: those snapshotted, the one before and the
\* one after
GcSteps == 0 .. (MaxSnapshots + 1)

SnapshotInit ==
    /\ config \in SnapshotConfigs
    /\ messages = EmptyMap
    /\ snapshots = EmptyMap
    /\ nextId = 1
    /\ op = "init"
    /\ ret = Null
    /\ removed = {}
    /\ stored = EmptyMap
    /\ manager = DEFAULT_RETENTION_CONFIG
    /\ input = <<>>
    /\ registry = ObserverRegistry(TRUE, FALSE)
    /\ dispatch = IdleDispatch
    /\ trigger = DefaultRetry
    /\ exec = IdleExec
    /\ calls = <<>>
    /\ now = 0
    /\ caller = IdleCaller
    /\ stepStates = EmptyMap
    /\ injection = DEFAULT_INJECTION_CONFIG
    /\ defaultPolicies = DEFAULT_RETENTION_POLICIES
    /\ managers = <<>>
    /\ injected = {}

SnapshotNext ==
    \/ \E snapshot \in SnapshotsOffered : StoreSnapshot(snapshot)
    \/ \E threadId \in Threads, limit \in SnapshotLimits : GetSnapshots(threadId, limit)
    \/ \E threadId \in Threads, currentStep \in GcSteps : Gc(threadId, currentStep)
    \/ \E threadId \in Threads : ClearThread(threadId)
    \/ Clear

SnapshotSpec == SnapshotInit /\ [][SnapshotNext]_vars

---------------------------------------------------------------------------
(* A RetentionManager on its own: constructed with a configuration, then   *)
(* handed an array of messages.                                            *)

\* What apply reads of a MailboxMessage.  Insights come with two
\* fingerprints, two confidences and two steps, next to one warning.
RetentionShapes ==
    [ type : {"insight"}, contentHash : {"hash-1", "hash-2"},
      confidence : {50, 90}, sentAtStep : {1, 2} ]
    \cup
    [ type : {"warning"}, contentHash : {"hash-1"}, confidence : {70}, sentAtStep : {1} ]

\* The arrays handed to apply: the objects are told apart by their id.
RetentionInputs ==
    UNION { { [i \in 1 .. n |-> [k \in {"id"} |-> i] @@ shapes[i]] :
                shapes \in [1 .. n -> RetentionShapes] } : n \in 0 .. MaxInput }

\* RetentionPolicy for the insights: every optional field present and absent
InsightPolicies ==
    { [type |-> "insight"],
      [type |-> "insight", maxCount |-> 1, priority |-> "newest"],
      [type |-> "insight", maxCount |-> 1, priority |-> "oldest"],
      [type |-> "insight", maxCount |-> 1, priority |-> "highest-confidence"],
      [type |-> "insight", maxCount |-> 2, priority |-> "highest-confidence"],
      [type |-> "insight", maxCount |-> 2, dedupe |-> TRUE],
      [type |-> "insight", maxCount |-> 0, dedupe |-> FALSE],
      [type |-> "insight", minConfidence |-> 60],
      [type |-> "insight", maxCount |-> 1, dedupe |-> TRUE, priority |-> "oldest",
       minConfidence |-> 60] }

\* new RetentionManager({policies: [policy], globalMaxMessages, defaultPolicy}):
\* the other types fall to the default policy, or to the fallback of
\* getPolicy when defaultPolicy is passed as undefined
RetentionManagers ==
    { [policyMap |-> [type \in {"insight"} |-> policy], globalMaxMessages |-> g] @@ d :
        policy \in InsightPolicies,
        g \in {0, 2, DEFAULT_RETENTION_CONFIG.globalMaxMessages},
        d \in OptField("defaultPolicy", {DEFAULT_RETENTION_CONFIG.defaultPolicy}) }

RetentionInit ==
    /\ manager \in RetentionManagers
    /\ input \in RetentionInputs
    /\ config = DEFAULT_MAILBOX_CONFIG
    /\ messages = EmptyMap
    /\ snapshots = EmptyMap
    /\ nextId = 1
    /\ op = "init"
    /\ ret = Null
    /\ removed = {}
    /\ stored = EmptyMap
    /\ registry = ObserverRegistry(TRUE, FALSE)
    /\ dispatch = IdleDispatch
    /\ trigger = DefaultRetry
    /\ exec = IdleExec
    /\ calls = <<>>
    /\ now = 0
    /\ caller = IdleCaller
    /\ stepStates = EmptyMap
    /\ injection = DEFAULT_INJECTION_CONFIG
    /\ defaultPolicies = DEFAULT_RETENTION_POLICIES
    /\ managers = <<>>
    /\ injected = {}

RetentionNext == Apply

RetentionSpec == RetentionInit /\ [][RetentionNext]_vars

---------------------------------------------------------------------------
(* Dispatching a snapshot to the registered observers *)

\* what the handlers return: an insight addressed to thread-2 with no
\* sender, and a warning addressed to thread-1 in the name of "custom"
InsightNoSender ==
    SendMessageInput("thread-2", "", 1,
        [content |-> "a", type |-> "insight", confidence |-> 90, expiresAtStep |-> Null])
WarningFromCustom ==
    SendMessageInput("thread-1", "custom", 1,
        [content |-> "b", type |-> "warning", confidence |-> 50, expiresAtStep |-> Null])

\* The handlers offered: one that sends the insight twice; one whose filter
\* rejects the snapshot; one whose filter accepts it, and that sends the
\* warning and skips the remaining observers; one that always throws.
HandlerKinds ==
    { [failures |-> 0, messages |-> <<InsightNoSender, InsightNoSender>>,
       skipRemainingObservers |-> FALSE],
      [filter |-> FALSE, failures |-> 0, messages |-> <<WarningFromCustom>>,
       skipRemainingObservers |-> TRUE],
      [filter |-> TRUE, failures |-> 0, messages |-> <<WarningFromCustom>>,
       skipRemainingObservers |-> TRUE],
      [failures |-> AlwaysFails, messages |-> <<>>,
       skipRemainingObservers |-> FALSE] }

HandlerPriorities == {50, 100}

\* the ids, in the order of registration
HandlerId(k) == CASE k = 1 -> "h1" [] k = 2 -> "h2" [] k = 3 -> "h3" [] OTHER -> "h4"

\* the handlers offered in a state
HandlersOffered ==
    { ObserverHandler(HandlerId(Len(registry.handlers) + 1), p, kind) :
        p \in HandlerPriorities, kind \in HandlerKinds }

\* the registries constructed: the default one, one with an onObserverError
\* callback, and one that has the callback and stops at the first error
Registries ==
    { ObserverRegistry(TRUE, FALSE), ObserverRegistry(TRUE, TRUE),
      ObserverRegistry(FALSE, TRUE) }

DispatchInit ==
    /\ config = DEFAULT_MAILBOX_CONFIG
    /\ messages = EmptyMap
    /\ snapshots = EmptyMap
    /\ nextId = 1
    /\ op = "init"
    /\ ret = Null
    /\ removed = {}
    /\ stored = EmptyMap
    /\ manager = DEFAULT_RETENTION_CONFIG
    /\ input = <<>>
    /\ registry \in Registries
    /\ dispatch = IdleDispatch
    /\ trigger = DefaultRetry
    /\ exec = IdleExec
    /\ calls = <<>>
    /\ now = 0
    /\ caller = IdleCaller
    /\ stepStates = EmptyMap
    /\ injection = DEFAULT_INJECTION_CONFIG
    /\ defaultPolicies = DEFAULT_RETENTION_POLICIES
    /\ managers = <<>>
    /\ injected = {}

\* The handlers are registered first; then snapshots of the two threads are
\* dispatched.
DispatchNext ==
    \/ \E handler \in HandlersOffered :
          /\ Len(registry.handlers) < MaxHandlers
          /\ op \in {"init", "register"}
          /\ Register(handler)
    \/ \E t \in Threads : Dispatch(StepSnapshot(t, 1))
    \/ DispatchHandler
    \/ DispatchSend
    \/ DispatchReturn
    \/ DispatchThrow

DispatchSpec == DispatchInit /\ [][DispatchNext]_vars

---------------------------------------------------------------------------
(* Executing the observers with retries *)

\* The handlers registered behind a retry loop: one that throws on its first
\* invocation and sends the insight from then on, one that always throws,
\* one that returns no messages.
RetryHandlerKinds ==
    { [failures |-> 1, messages |-> <<InsightNoSender>>,
       skipRemainingObservers |-> FALSE],
      [failures |-> AlwaysFails, messages |-> <<>>,
       skipRemainingObservers |-> FALSE],
      [failures |-> 0, messages |-> <<>>, skipRemainingObservers |-> FALSE] }

RetryHandlersOffered ==
    { ObserverHandler(HandlerId(Len(registry.handlers) + 1), 50, kind) :
        kind \in RetryHandlerKinds }

\* the delays configured: one millisecond, and the default
RetryDelays == {1, DefaultRetry.retryDelayMs}

\* The retry loops: executeObservers around an onTrigger callback or around
\* the registry's dispatch, and dispatchToObservers around its handler; the
\* callback or handler throws on its first 0 .. MaxRetries invocations, or
\* always.
Triggers ==
    { [maxRetries |-> n, retryDelayMs |-> d, onError |-> c, target |-> t, failures |-> f,
       await |-> w] :
        n \in 0 .. MaxRetries, d \in RetryDelays, c \in BOOLEAN,
        t \in {"onTrigger", "handler"}, f \in (0 .. MaxRetries) \cup {AlwaysFails},
        w \in BOOLEAN }
    \cup
    { [maxRetries |-> n, retryDelayMs |-> d, onError |-> c, target |-> "registry",
       failures |-> 0, await |-> w] :
        n \in 0 .. MaxRetries, d \in RetryDelays, c \in BOOLEAN, w \in BOOLEAN }

RetryInit ==
    /\ config = DEFAULT_MAILBOX_CONFIG
    /\ messages = EmptyMap
    /\ snapshots = EmptyMap
    /\ nextId = 1
    /\ op = "init"
    /\ ret = Null
    /\ removed = {}
    /\ stored = EmptyMap
    /\ manager = DEFAULT_RETENTION_CONFIG
    /\ input = <<>>
    /\ registry \in Registries
    /\ dispatch = IdleDispatch
    /\ trigger \in { t \in Triggers :
                        t.target = "registry" \/ registry = ObserverRegistry(TRUE, FALSE) }
    /\ exec = IdleExec
    /\ calls = <<>>
    /\ now = 0
    /\ caller = IdleCaller
    /\ stepStates = EmptyMap
    /\ injection = DEFAULT_INJECTION_CONFIG
    /\ defaultPolicies = DEFAULT_RETENTION_POLICIES
    /\ managers = <<>>
    /\ injected = {}

\* The handlers are registered first, when the loop is around a registry;
\* then the steps of thread-1 trigger the observers through the middleware,
\* or its snapshot is dispatched through the observer context.
RetryNext ==
    \/ \E handler \in RetryHandlersOffered :
          /\ trigger.target = "registry"
          /\ Len(registry.handlers) < MaxHandlers
          /\ op \in {"init", "register"}
          /\ Register(handler)
    \/ /\ Len(GetOrEmpty(stored, "thread-1")) < MaxSnapshots
       /\ trigger.target # "handler"
       /\ TransformParams("thread-1", 1)
    \/ AfterGenerate("thread-1")
    \/ AfterGenerateResume
    \/ DispatchToObservers(StepSnapshot("thread-1", 1))
    \/ DispatchToObserversResume
    \/ ExecAttempt
    \/ DispatchHandler
    \/ DispatchSend
    \/ ExecDispatchReturned
    \/ ExecDispatchThrew
    \/ ExecWake

RetrySpec == RetryInit /\ [][RetryNext]_vars

----------------------------------------------------------------------------
(* Registering and unregistering handlers *)

\* The handlers passed to register: every id at both priorities, handlers
\* that return no messages
RegistryHandlers ==
    { ObserverHandler(HandlerId(k), p,
                      [failures |-> 0, messages |-> <<>>,
                       skipRemainingObservers |-> FALSE]) :
        k \in 1 .. MaxHandlers, p \in HandlerPriorities }

RegistryInit ==
    /\ config = DEFAULT_MAILBOX_CONFIG
    /\ messages = EmptyMap
    /\ snapshots = EmptyMap
    /\ nextId = 1
    /\ op = "init"
    /\ ret = Null
    /\ removed = {}
    /\ stored = EmptyMap
    /\ manager = DEFAULT_RETENTION_CONFIG
    /\ input = <<>>
    /\ registry = ObserverRegistry(TRUE, FALSE)
    /\ dispatch = IdleDispatch
    /\ trigger = DefaultRetry
    /\ exec = IdleExec
    /\ calls = <<>>
    /\ now = 0
    /\ caller = IdleCaller
    /\ stepStates = EmptyMap
    /\ injection = DEFAULT_INJECTION_CONFIG
    /\ defaultPolicies = DEFAULT_RETENTION_POLICIES
    /\ managers = <<>>
    /\ injected = {}

RegistryNext ==
    \/ \E handler \in RegistryHandlers :
          /\ Len(calls) < MaxRegistrations
          /\ Register(handler)
    \/ \E k \in 1 .. MaxHandlers :
          /\ Len(calls) < MaxRegistrations
          /\ Unregister(HandlerId(k))

RegistrySpec == RegistryInit /\ [][RegistryNext]_vars

----------------------------------------------------------------------------
(* The middleware around the steps of one thread: transformParams(thread, s) *)
(* is followed by its afterGenerate(thread) before transformParams(thread,   *)
(* s + 1), while the observers send messages.                                *)

\* the step transformParams is called with next: one more than the number of
\* steps afterGenerate has snapshotted
NextStep(t) == Len(GetOrEmpty(stored, t)) + 1

\* What the observers send at step s: an insight that lives for
\* defaultTtlSteps, a warning that expires at the next step, and an insight
\* of a confidence below DEFAULT_INJECTION_CONFIG.minConfidence
MiddlewareSends(s) ==
    { SendMessageInput("thread-1", a, s, p) :
        a \in Agents,
        p \in { [content |-> "a", type |-> "insight", confidence |-> 90,
                 expiresAtStep |-> Null],
                [content |-> "b", type |-> "warning", confidence |-> 90,
                 expiresAtStep |-> s + 1],
                [content |-> "c", type |-> "insight", confidence |-> 50,
                 expiresAtStep |-> Null] } }

MiddlewareInit ==
    /\ config = [DEFAULT_MAILBOX_CONFIG EXCEPT !.dedupeWindowSteps = 0]
    /\ messages = EmptyMap
    /\ snapshots = EmptyMap
    /\ nextId = 1
    /\ op = "init"
    /\ ret = Null
    /\ removed = {}
    /\ stored = EmptyMap
    /\ manager = DEFAULT_RETENTION_CONFIG
    /\ input = <<>>
    /\ registry = ObserverRegistry(TRUE, FALSE)
    /\ dispatch = IdleDispatch
    /\ trigger \in {DefaultRetry, [DefaultRetry EXCEPT !.await = TRUE]}
    /\ exec = IdleExec
    /\ calls = <<>>
    /\ now = 0
    /\ caller = IdleCaller
    /\ stepStates = EmptyMap
    /\ injection \in {DEFAULT_INJECTION_CONFIG,
                      [DEFAULT_INJECTION_CONFIG EXCEPT !.maxMessagesPerTurn = 1]}
    /\ defaultPolicies = DEFAULT_RETENTION_POLICIES
    /\ managers = <<>>
    /\ injected = {}

MiddlewareNext ==
    \/ \E message \in MiddlewareSends(Len(GetOrEmpty(stored, "thread-1"))) :
          Send(message)
    \/ /\ "thread-1" \notin DOMAIN stepStates
       /\ caller.pc # "awaiting"
       /\ NextStep("thread-1") <= MaxSnapshots
       /\ TransformParams("thread-1", NextStep("thread-1"))
    \/ /\ "thread-1" \in DOMAIN stepStates
       /\ AfterGenerate("thread-1")
    \/ AfterGenerateResume
    \/ ExecAttempt

MiddlewareSpec == MiddlewareInit /\ [][MiddlewareNext]_vars

----------------------------------------------------------------------------
(* Several RetentionManagers side by side *)

\* the configurations managers are constructed with: none, and one with a
\* policies array of its own that has a policy for insights only
ManagerConfigs ==
    { EmptyRecord,
      [policies |-> << [type |-> "insight", maxCount |-> 2, dedupe |-> FALSE,
                        priority |-> "oldest"] >>] }

\* the policies handed to setPolicy
PoliciesSet ==
    { [type |-> "insight", maxCount |-> 1, dedupe |-> FALSE, priority |-> "newest"],
      [type |-> "warning", maxCount |-> 1, dedupe |-> FALSE, priority |-> "newest"] }

ManagersInit ==
    /\ config = DEFAULT_MAILBOX_CONFIG
    /\ messages = EmptyMap
    /\ snapshots = EmptyMap
    /\ nextId = 1
    /\ op = "init"
    /\ ret = Null
    /\ removed = {}
    /\ stored = EmptyMap
    /\ manager = DEFAULT_RETENTION_CONFIG
    /\ input = <<>>
    /\ registry = ObserverRegistry(TRUE, FALSE)
    /\ dispatch = IdleDispatch
    /\ trigger = DefaultRetry
    /\ exec = IdleExec
    /\ calls = <<>>
    /\ now = 0
    /\ caller = IdleCaller
    /\ stepStates = EmptyMap
    /\ injection = DEFAULT_INJECTION_CONFIG
    /\ defaultPolicies = DEFAULT_RETENTION_POLICIES
    /\ managers = <<>>
    /\ injected = {}

ManagersNext ==
    \/ \E cfg \in ManagerConfigs :
          /\ Len(managers) < MaxManagers
          /\ NewManager(cfg)
    \/ \E k \in 1 .. Len(managers), policy \in PoliciesSet : SetPolicy(k, policy)

ManagersSpec == ManagersInit /\ [][ManagersNext]_vars

---------------------------------------------------------------------------
(* Vocabulary of the properties *)

ThreadMessages(map, t) == Range(GetOrEmpty(map, t))
AllMessages(map) == UNION { Range(map[t]) : t \in DOMAIN map }
Ids(msgs) == { m.id : m \in msgs }
LeastSentAtStep(msgs) == CHOOSE s \in { m.sentAtStep : m \in msgs } :
                            \A m \in msgs : s <= m.sentAtStep

\* a message of the candidate's thread with the candidate's fingerprint, sent
\* in the closed interval [sentAtStep - dedupeWindowSteps, sentAtStep]
DuplicateInWindow(message) ==
    \E m \in ThreadMessages(messages, message.threadId) :
        /\ m.contentHash = computeContentHash(message.content)
        /\ message.sentAtStep - config.dedupeWindowSteps <= m.sentAtStep
        /\ m.sentAtStep <= message.sentAtStep

---------------------------------------------------------------------------
(* C1 .. C10: InMemoryMailboxStore *)

\* C1: send returns false if and only if the candidate's thread holds a message
\* with the same content fingerprint sent within
\* [sentAtStep - dedupeWindowSteps, sentAtStep]; in every other case it
\* returns true.
C1_SendRejectsIffDuplicateInWindow ==
    [][\A message \in SendMessageInputs :
          (op' = "send" /\ Send(message))
              => (ret' = FALSE <=> DuplicateInWindow(message))]_vars

\* C2: a send that returns false changes nothing: the messages of every
\* thread and every snapshot log are the same before and after the call.
C2_RejectedSendChangesNothing ==
    [][(op' = "send" /\ ret' = FALSE) =>
          (messages' = messages /\ snapshots' = snapshots)]_vars

C2_Witness ==
    /\ op = "send" /\ ret = FALSE
    /\ AllMessages(messages) # {}
    /\ "thread-1" \in DOMAIN snapshots /\ snapshots["thread-1"] # <<>>

\* C3: incorporatedAtStep is write-once: once a stored message holds a step
\* there, no operation changes it for as long as the message stays stored.
C3_IncorporatedAtStepWriteOnce ==
    [][\A m \in AllMessages(messages) : \A n \in AllMessages(messages') :
          (m.id = n.id /\ m.incorporatedAtStep # Null)
              => n.incorporatedAtStep = m.incorporatedAtStep]_vars

\* C4: every thread holds at most maxMessagesPerThread messages.
C4_AtMostMaxMessagesPerThread ==
    \A t \in DOMAIN messages : Len(messages[t]) <= config.maxMessagesPerThread

C4_Witness ==
    /\ op = "send" /\ ret = TRUE /\ removed # {}
    /\ \E t \in DOMAIN messages :
          /\ Len(messages[t]) = config.maxMessagesPerThread
          /\ config.maxMessagesPerThread = 2

\* C5: a message removed by the capacity enforcement of send has the least
\* sentAtStep among the thread's incorporated messages when there is one;
\* a pending message is removed only when the thread holds no incorporated
\* message, and then it has the least sentAtStep of the thread.
C5_EvictsOldestIncorporatedFirst ==
    [][\A message \in SendMessageInputs :
          (op' = "send" /\ Send(message) /\ ret' = TRUE) =>
              LET before == Range(Append(GetOrEmpty(messages, message.threadId),
                                         fullMessage(message)))
                  incorporated == { m \in before : m.incorporatedAtStep # Null }
              IN  \A r \in before \ ThreadMessages(messages', message.threadId) :
                      IF incorporated # {}
                      THEN /\ r \in incorporated
                           /\ r.sentAtStep = LeastSentAtStep(incorporated)
                      ELSE r.sentAtStep = LeastSentAtStep(before)]_vars

\* an incorporated message was evicted although an older pending one is there
C5_Witness ==
    /\ op = "send" /\ ret = TRUE
    /\ \E r \in removed :
          /\ r.incorporatedAtStep # Null
          /\ \E m \in ThreadMessages(messages, r.threadId) :
                m.incorporatedAtStep = Null /\ m.sentAtStep < r.sentAtStep

\* C6 as stated: a message that is in a thread stays in that thread across
\* every send, query, markIncorporated, storeSnapshot and getSnapshots call.
C6_NoRemovalOutsideMaintenance ==
    [][op' \in {"send", "query", "markIncorporated", "storeSnapshot", "getSnapshots"} =>
          \A t \in DOMAIN messages :
              Ids(ThreadMessages(messages, t)) \subseteq Ids(ThreadMessages(messages', t))]_vars

\* C6 amended: a message stays in its thread across every query,
\* markIncorporated, storeSnapshot and getSnapshots call, and across every
\* send except an accepted send to its own thread that finds the thread
\* already holding maxMessagesPerThread messages or more.
C6_RemovalOnlyByMaintenanceOrCapacity ==
    [][op' \in {"send", "query", "markIncorporated", "storeSnapshot", "getSnapshots"} =>
          \A t \in DOMAIN messages :
              \/ Ids(ThreadMessages(messages, t)) \subseteq Ids(ThreadMessages(messages', t))
              \/ /\ op' = "send" /\ ret' = TRUE
                 /\ Len(messages[t]) >= config.maxMessagesPerThread
                 /\ \A u \in DOMAIN messages \ {t} : messages'[u] = messages[u]]_vars

\* an accepted send to a thread that already held a message evicted nothing
C6_Witness ==
    /\ op = "send" /\ ret = TRUE /\ removed = {}
    /\ \E t \in DOMAIN messages : Len(messages[t]) = 2

QueryRanksAtOrAbove(a, b) ==
    \/ a.confidence > b.confidence
    \/ a.confidence = b.confidence /\ a.sentAtStep >= b.sentAtStep

\* C7: query returns the matching messages by confidence descending, then
\* sentAtStep descending, and with a limit k the first min(k, n) of those n.
\* (Stated of every query that can be asked in the state a query was just
\* answered in; the query action is always enabled and leaves the messages
\* as they are, so these are all the reachable message maps.)
C7_QuerySortedThenTruncated ==
    op = "query" =>
        \A t \in Threads : \A f \in QueryFilters : \A st \in QueryStatuses :
            LET msgs == GetOrEmpty(messages, t)
                all == query(t, f @@ st)
            IN  /\ Range(all) = { m \in Range(msgs) : queryFilter(m, f @@ st) }
                /\ Len(all) = Cardinality(Range(all))
                /\ \A i \in 1 .. Len(all) : \A j \in (i + 1) .. Len(all) :
                        QueryRanksAtOrAbove(all[i], all[j])
                /\ \A l \in QueryLimits \ {EmptyRecord} :
                        query(t, f @@ st @@ l) = SubSeq(all, 1, Min(l.limit, Len(all)))

\* a limit of 1 cut a list of two messages that are stored in the other order
C7_Witness ==
    LET all == query("thread-1", [status |-> "all"])
    IN  /\ op = "query"
        /\ Len(all) = 2 /\ all[1].confidence = all[2].confidence
        /\ ret = <<all[1]>>
        /\ ret # query("thread-1", [status |-> "pending"])
        /\ messages["thread-1"][1] # ret[1]

\* C8: for every thread and every choice of the other filters, the pending
\* and the incorporated results are disjoint and their union is the result
\* of status "all".  (Stated in the states a query was just answered in, as
\* C7 is.)
C8_StatusPartition ==
    op = "query" =>
        \A t \in Threads : \A f \in QueryFilters :
            LET pending == Range(query(t, f @@ [status |-> "pending"]))
                incorporated == Range(query(t, f @@ [status |-> "incorporated"]))
                all == Range(query(t, f @@ [status |-> "all"]))
            IN  /\ pending \cap incorporated = {}
                /\ pending \cup incorporated = all

C8_Witness ==
    /\ op = "query"
    /\ query("thread-1", [status |-> "pending"]) # <<>>
    /\ query("thread-1", [status |-> "incorporated"]) # <<>>

\* C9: query changes neither the stored messages (their order, fields and
\* incorporatedAtStep) nor the snapshot logs, for a thread the store knows
\* and for one it does not; the list query returns is a function of the
\* message map, so the same query asked again returns the same list.
C9_QueryHasNoSideEffect ==
    [][op' = "query" => (messages' = messages /\ snapshots' = snapshots)]_vars

\* a query over two stored messages that the result lists in the other order
C9_Witness ==
    /\ op = "query" /\ Len(ret) = 2
    /\ messages["thread-1"] # ret
    /\ snapshots # EmptyMap

\* the claim's condition for a message to survive gc(thread, s)
SurvivesGc(m, s) ==
    /\ m.expiresAtStep = Null \/ m.expiresAtStep > s
    /\ m.incorporatedAtStep = Null
          \/ m.incorporatedAtStep >= s - config.snapshotRetentionSteps

---------------------------------------------------------------------------
(* C11 .. C16: InMemoryMailboxStore, continued *)

\* the arrays of every thread but t are the same before and after the step
OtherThreadsUntouched(t) ==
    \A u \in Threads \ {t} :
        /\ GetOrEmpty(messages', u) = GetOrEmpty(messages, u)
        /\ GetOrEmpty(snapshots', u) = GetOrEmpty(snapshots, u)
        /\ (u \in DOMAIN messages') = (u \in DOMAIN messages)
        /\ (u \in DOMAIN snapshots') = (u \in DOMAIN snapshots)

\* C11: send, gc, storeSnapshot and clearThread applied to one thread leave
\* the stored messages and the snapshot log of every other thread as they
\* were (query and getSnapshots read nothing but these two arrays of their
\* thread, so their results for the other threads are the same too), and a
\* send is rejected only when its own thread holds the candidate's
\* fingerprint.
C11_ThreadsAreIsolated ==
    [][/\ op' = "send" =>
            \A message \in SendMessageInputs :
                \/ /\ OtherThreadsUntouched(message.threadId)
                   /\ ret' = FALSE =>
                         \E m \in ThreadMessages(messages, message.threadId) :
                             m.contentHash = computeContentHash(message.content)
                \/ ~Send(message)
       /\ op' = "gc" =>
            \A t \in Threads : \A s \in Steps :
                OtherThreadsUntouched(t) \/ ~Gc(t, s)
       /\ op' = "storeSnapshot" =>
            \A snapshot \in StepSnapshots :
                OtherThreadsUntouched(snapshot.threadId) \/ ~StoreSnapshot(snapshot)
       /\ op' = "clearThread" =>
            \A t \in Threads :
                OtherThreadsUntouched(t) \/ ~ClearThread(t)]_vars

\* thread-2 accepted content "a" at step 1 while thread-1, which has a
\* snapshot log, holds content "a" sent at step 1
C11_Witness ==
    /\ op = "send" /\ ret = TRUE
    /\ \E m \in ThreadMessages(messages, "thread-2") : m.id = nextId - 1
    /\ \E m \in ThreadMessages(messages, "thread-1") :
          m.content = "a" /\ m.sentAtStep = 1
    /\ GetOrEmpty(snapshots, "thread-1") # <<>>

\* the last k elements of a sequence, all of it when it has fewer
LastOf(s, k) == SubSeq(s, Len(s) - Min(k, Len(s)) + 1, Len(s))

\* C12: with snapshotRetentionSteps = R, the snapshot log of a thread to
\* which n snapshots were stored holds at most R snapshots, and they are the
\* min(R, n) stored last, in the order they were stored.
C12_LogHoldsTheLastR ==
    /\ DOMAIN snapshots = DOMAIN stored
    /\ \A t \in DOMAIN snapshots :
          /\ Len(snapshots[t]) <= config.snapshotRetentionSteps
          /\ snapshots[t] = LastOf(stored[t], config.snapshotRetentionSteps)

\* three snapshots were stored to a thread that retains two
C12_Witness ==
    /\ op = "storeSnapshot"
    /\ config.snapshotRetentionSteps = 2
    /\ \E t \in DOMAIN snapshots :
          /\ Len(stored[t]) = 3
          /\ snapshots[t] = <<StepSnapshot(t, 2), StepSnapshot(t, 3)>>

\* C13: getSnapshots(threadId, limit) returns, oldest first, the
\* min(limit, n) snapshots stored last of the n the thread's log holds, for
\* every limit >= 0 (so never more than limit snapshots), and leaves the
\* log as it is.
C13_GetSnapshotsReturnsTheLastLimit ==
    [][\A t \in Threads : \A limit \in SnapshotLimits :
          (op' = "getSnapshots" /\ GetSnapshots(t, limit)) =>
              /\ ret' = LastOf(GetOrEmpty(snapshots, t), limit)
              /\ Len(ret') <= limit
              /\ snapshots' = snapshots]_vars

\* C14: markIncorporated(ids, s) called again right after
\* markIncorporated(ids, s) changes nothing: the message map the first call
\* leaves is the one the second call leaves; a call whose ids are those of
\* no stored message leaves the message map as it was; and neither touches
\* the snapshot logs.
C14_MarkIncorporatedIdempotent ==
    [][\A messageIds \in MessageIdSets : \A atStep \in MarkSteps :
          (op' = "markIncorporated" /\ MarkIncorporated(messageIds, atStep)) =>
              /\ markIncorporatedMessages(messages', messageIds, atStep) = messages'
              /\ messageIds \cap Ids(AllMessages(messages)) = {}
                    => messages' = messages
              /\ snapshots' = snapshots]_vars

\* a call marked one of two stored messages
C14_Witness ==
    /\ op = "markIncorporated"
    /\ \E m \in AllMessages(messages) : m.incorporatedAtStep = MaxStep
    /\ \E m \in AllMessages(messages) : m.incorporatedAtStep = Null

ReferenceStep(opts) ==
    IF "newerThanStep" \in DOMAIN opts THEN opts.newerThanStep ELSE 0

\* C16: no query returns a message whose expiresAtStep is not null and is at
\* or before the query's reference step (newerThanStep, or 0 when the
\* option is absent), whether gc has run or not.  (Stated of every query
\* that can be asked in the state a query was just answered in, as C7 is.)
C16_QueryExcludesExpired ==
    op = "query" =>
        \A t \in Threads : \A f \in QueryFilters : \A st \in QueryStatuses :
            \A l \in QueryLimits :
                \A m \in Range(query(t, f @@ st @@ l)) :
                    m.expiresAtStep = Null \/ m.expiresAtStep > ReferenceStep(f)

\* the thread still holds a message sent after step 1 that expired at step
\* 1; the query for messages newer than step 1 returns another one, not it
C16_Witness ==
    /\ op = "query"
    /\ query("thread-1", [newerThanStep |-> 1]) # <<>>
    /\ \E m \in ThreadMessages(messages, "thread-1") :
          /\ m.sentAtStep > 1
          /\ m.expiresAtStep <= 1
          /\ m \notin Range(query("thread-1", [newerThanStep |-> 1]))

---------------------------------------------------------------------------
(* C17 .. C20: RetentionManager *)

\* C17: apply partitions its input: every message handed in is in exactly
\* one of keep and cull, once, and nothing else is in either;
\* stats.totalInput is the length of the input and stats.totalKept the
\* length of keep.  This holds under every policy and with the global cap.
C17_ApplyPartitionsInput ==
    op = "apply" =>
        /\ Range(ret.keep) \cap Range(ret.cull) = {}
        /\ Range(ret.keep) \cup Range(ret.cull) = Range(input)
        /\ Len(ret.keep) + Len(ret.cull) = Len(input)
        /\ ret.stats.totalInput = Len(input)
        /\ ret.stats.totalKept = Len(ret.keep)

\* messages of two types all passed their type's policy, and the global cap
\* of two moved the rest to cull
C17_Witness ==
    /\ op = "apply"
    /\ Len(input) = MaxInput
    /\ \E m \in Range(input) : m.type = "warning"
    /\ \E m \in Range(input) : m.type = "insight"
    /\ manager.globalMaxMessages = 2
    /\ \A type \in DOMAIN ret.stats.culledByType : ret.stats.culledByType[type] = 0
    /\ Len(ret.keep) = 2
    /\ Len(ret.cull) = Len(input) - 2

\* the sum of a function's values over its domain
RECURSIVE SumOver(_, _)
SumOver(f, keys) ==
    IF keys = {} THEN 0
    ELSE LET k == CHOOSE x \in keys : TRUE IN f[k] + SumOver(f, keys \ {k})

\* C18: the statistics of apply partition the input with no message counted
\* twice: totalInput = totalKept + culledByConfidence + culledByDedup + the
\* sum of culledByType over the types, culledByType counting the messages
\* cut by maxCount only.
C18_StatsPartitionInput ==
    op = "apply" =>
        ret.stats.totalInput =
            ret.stats.totalKept + ret.stats.culledByConfidence + ret.stats.culledByDedup
                + SumOver(ret.stats.culledByType, DOMAIN ret.stats.culledByType)

\* the policy of the type asks for deduplication
DedupEnabled(type) ==
    LET policy == getPolicy(type) IN "dedupe" \in DOMAIN policy /\ policy.dedupe

\* the message is at or above the confidence floor of its type, if any
PassesFloor(m) ==
    LET policy == getPolicy(m.type)
    IN  "minConfidence" \in DOMAIN policy => m.confidence >= policy.minConfidence

\* the messages of a type that reach deduplication, and how many of them
\* share a fingerprint with another that stands for them
ReachDedup(type) == { m \in Range(input) : m.type = type /\ PassesFloor(m) }
Collapsed(type) ==
    Cardinality(ReachDedup(type)) - Cardinality({ m.contentHash : m \in ReachDedup(type) })

RanksAtOrAbove(rule, a, b) ==
    CASE rule = "newest" -> a.sentAtStep >= b.sentAtStep
      [] rule = "oldest" -> a.sentAtStep <= b.sentAtStep
      [] rule = "highest-confidence" ->
            \/ a.confidence > b.confidence
            \/ a.confidence = b.confidence /\ a.sentAtStep >= b.sentAtStep

\* the priority rule of a policy (newest when the policy names none)
RuleOf(policy) == IF "priority" \in DOMAIN policy THEN policy.priority ELSE "newest"

\* what applyPolicy culls of a type by truncation: the entries of its cull
\* list after the confidence-culled and the dedup-culled ones
TruncatedOf(type) ==
    LET r == applyPolicy(groupByType(input)[type], getPolicy(type))
    IN  Range(ArraySliceFrom(r.cull, r.confidenceCulled + r.dedupCulled))

\* C20: for a type whose policy has maxCount = k, the messages kept for the
\* type before the global cap are at most k, and each of them ranks at or
\* above each message the truncation culled, under the policy's priority
\* rule; the global cap can only take kept messages away, so apply returns
\* at most k messages of the type, and the truncated ones are in its cull.
C20_MaxCountKeepsTopRanked ==
    op = "apply" =>
        \A type \in DOMAIN groupByType(input) :
            LET policy == getPolicy(type)
                kept == Range(applyPolicy(groupByType(input)[type], policy).keep)
            IN  "maxCount" \in DOMAIN policy =>
                    /\ Cardinality(kept) <= policy.maxCount
                    /\ \A m \in kept : \A x \in TruncatedOf(type) :
                            RanksAtOrAbove(RuleOf(policy), m, x)
                    /\ { m \in Range(ret.keep) : m.type = type } \subseteq kept
                    /\ TruncatedOf(type) \subseteq Range(ret.cull)

\* highest-confidence with maxCount 1: the kept insight was not the first of
\* the input, and the truncation culled one of equal confidence sent
\* earlier and one of lower confidence
C20_Witness ==
    /\ op = "apply"
    /\ "maxCount" \in DOMAIN getPolicy("insight")
    /\ getPolicy("insight").maxCount = 1
    /\ RuleOf(getPolicy("insight")) = "highest-confidence"
    /\ Len(ret.keep) = 1
    /\ ret.keep[1].id # 1
    /\ \E x \in TruncatedOf("insight") :
          x.confidence = ret.keep[1].confidence /\ x.sentAtStep < ret.keep[1].sentAtStep
    /\ \E x \in TruncatedOf("insight") : x.confidence < ret.keep[1].confidence

---------------------------------------------------------------------------
(* C21: RetentionManager, the global cap *)

\* what the global cap moved to cull: the entries of cull after those the
\* policies of the types culled
CulledByGlobalCap ==
    LET perType == SumOver(ret.stats.culledByType, DOMAIN ret.stats.culledByType)
    IN  Range(ArraySliceFrom(ret.cull, perType))

\* C21: with a global cap G configured, G >= 0, apply returns at most G
\* messages in keep, and every message the global cap moved to cull has a
\* confidence at or below that of every message left in keep.
C21_GlobalCapKeepsMostConfident ==
    (op = "apply" /\ "globalMaxMessages" \in DOMAIN manager) =>
        /\ Len(ret.keep) <= manager.globalMaxMessages
        /\ \A x \in CulledByGlobalCap : \A m \in Range(ret.keep) :
                x.confidence <= m.confidence

---------------------------------------------------------------------------
(* C22..C24, C29, C30: ObserverRegistry.dispatch *)

\* the registered handler of an id, and its place in the order of
\* registration
HandlerOf(id) == CHOOSE h \in Range(registry.handlers) : h.id = id
RegisteredAt(id) == CHOOSE k \in 1 .. Len(registry.handlers) : registry.handlers[k].id = id

\* the calls of one kind in the log, and the ids they went to, in order
CallsOf(log, call) == FilterSeq(log, { c \in Range(log) : c.call = call })
IdsOf(log, call) == [k \in 1 .. Len(CallsOf(log, call)) |-> CallsOf(log, call)[k].id]

\* handler a ranks before handler b
RanksBefore(a, b) ==
    \/ a.priority > b.priority
    \/ a.priority = b.priority /\ RegisteredAt(a.id) < RegisteredAt(b.id)

\* C22: dispatch invokes the handlers in non-increasing priority, and
\* handlers of equal priority in the order of their registration: of two
\* invocations of one dispatch, the earlier went to the handler that ranks
\* before the other.
C22_InvokedByPriorityThenRegistration ==
    LET invoked == IdsOf(calls, "handle")
    IN  \A k, l \in 1 .. Len(invoked) :
            k < l => RanksBefore(HandlerOf(invoked[k]), HandlerOf(invoked[l]))

\* C22 witness: a dispatch returned after invoking h2, h1, h3 in that order,
\* h2 having the higher priority and h1 and h3 the same.
C22_Witness ==
    /\ op = "dispatch"
    /\ IdsOf(calls, "handle") = <<"h2", "h1", "h3">>
    /\ HandlerOf("h2").priority > HandlerOf("h1").priority
    /\ HandlerOf("h1").priority = HandlerOf("h3").priority

\* what the handlers' definitions say dispatch does with them
Rejected(h) == "filter" \in DOMAIN h /\ ~h.filter
Throws(h) == h.failures > 0
Stops(h) == ~Rejected(h) /\ ~Throws(h) /\ h.skipRemainingObservers

\* the handlers dispatch reaches when it stops at handler s
UpTo(s) == { h \in Range(registry.handlers) : h = s \/ RanksBefore(h, s) }

\* the sends of the log that the store accepted
AcceptedSends(log) ==
    FilterSeq(log, { c \in Range(log) : c.call = "send" /\ c.detail.accepted })

\* C23: when a handler asks to skip the remaining observers, no handler
\* ranking after it is invoked, has its filter consulted or is recorded as
\* skipped; the result has shortCircuited true and the counts observersRun,
\* messagesSent, observersSkipped and errors accumulated up to and including
\* that handler.  When no invoked handler asks for it, shortCircuited is
\* false.
C23_ShortCircuitStopsTheDispatch ==
    op = "dispatch" =>
        LET invoked == IdsOf(calls, "handle")
            stoppers == { k \in 1 .. Len(invoked) : Stops(HandlerOf(invoked[k])) }
        IN  /\ ret.shortCircuited = (stoppers # {})
            /\ ret.shortCircuited =>
                 LET s == HandlerOf(invoked[Len(invoked)])
                 IN  /\ stoppers = {Len(invoked)}
                     /\ \A h \in Range(registry.handlers) \ UpTo(s) :
                            /\ \A k \in 1 .. Len(calls) : calls[k].id # h.id
                            /\ h.id \notin Range(ret.observersSkipped)
                     /\ ret.observersRun =
                            Cardinality({ h \in UpTo(s) : ~Rejected(h) /\ ~Throws(h) })
                     /\ ret.messagesSent = Len(AcceptedSends(calls))
                     /\ Len(ret.observersSkipped) =
                            Cardinality({ h \in UpTo(s) : Rejected(h) })
                     /\ Range(ret.observersSkipped) =
                            { h.id : h \in { x \in UpTo(s) : Rejected(x) } }
                     /\ Len(ret.errors) =
                            Cardinality({ h \in UpTo(s) : ~Rejected(h) /\ Throws(h) })
                     /\ { e.observerId : e \in Range(ret.errors) } =
                            { h.id : h \in { x \in UpTo(s) : ~Rejected(x) /\ Throws(x) } }

\* C23 witness: a dispatch over three handlers returned short-circuited by
\* the second in rank, after the first sent its message; the third, which
\* has no filter, was left out.
C23_Witness ==
    /\ op = "dispatch"
    /\ ret.shortCircuited
    /\ Len(registry.handlers) = 3
    /\ Len(IdsOf(calls, "handle")) = 2
    /\ ret.observersRun = 2
    /\ ret.messagesSent = 2
    /\ \E h \in Range(registry.handlers) :
          /\ h.id \notin Range(IdsOf(calls, "handle"))
          /\ "filter" \notin DOMAIN h

\* C23, the other case: a dispatch returned that no handler short-circuited,
\* although a handler whose filter rejected the snapshot would have
C23_WitnessNotShortCircuited ==
    /\ op = "dispatch"
    /\ ~ret.shortCircuited
    /\ ret.observersSkipped # <<>>
    /\ ret.observersRun > 0

\* the handlers the log shows dispatch reached
Reached(log) == { h \in Range(registry.handlers) : \E k \in 1 .. Len(log) : log[k].id = h.id }

\* C24: a handler whose filter rejects the snapshot is never invoked; when
\* the dispatch returns its id is in observersSkipped, once, it is counted
\* neither in observersRun nor in errors, shortCircuited is set only by a
\* handler that was invoked, and unless one was, every handler ranking after
\* the rejected one was reached as well.
C24_RejectedHandlerIsSkipped ==
    /\ \A k \in 1 .. Len(calls) :
          calls[k].call = "handle" => ~Rejected(HandlerOf(calls[k].id))
    /\ op = "dispatch" =>
          LET invoked == IdsOf(calls, "handle")
          IN  /\ ret.observersRun =
                    Cardinality({ k \in 1 .. Len(invoked) : ~Throws(HandlerOf(invoked[k])) })
              /\ ret.shortCircuited => \E k \in 1 .. Len(invoked) : Stops(HandlerOf(invoked[k]))
              /\ \A h \in Reached(calls) :
                    Rejected(h) =>
                        /\ Cardinality({ k \in 1 .. Len(ret.observersSkipped) :
                                            ret.observersSkipped[k] = h.id }) = 1
                        /\ \A e \in Range(ret.errors) : e.observerId # h.id
                        /\ ~ret.shortCircuited =>
                              \A g \in Range(registry.handlers) :
                                  RanksBefore(h, g) => g \in Reached(calls)

\* C24 witness: a dispatch returned after skipping the handler ranked first,
\* which would have stopped the dispatch, and invoking the two after it
C24_Witness ==
    /\ op = "dispatch"
    /\ Len(ret.observersSkipped) = 1
    /\ HandlerOf(ret.observersSkipped[1]).skipRemainingObservers
    /\ Len(IdsOf(calls, "handle")) = 2
    /\ \A k \in 1 .. 2 :
          RanksBefore(HandlerOf(ret.observersSkipped[1]), HandlerOf(IdsOf(calls, "handle")[k]))
    /\ ret.observersRun = 2
    /\ ~ret.shortCircuited

\* C29: messagesSent counts the handler-produced messages that store.send
\* accepted: it starts at 0, each send of the dispatch raises it by one when
\* the store took the message (a new id was given out and the message is in
\* its thread) and leaves it alone when the store refused a duplicate, no
\* other step of the dispatch changes it, and the result returns it.
C29_MessagesSentCountsAcceptedSends ==
    [][ /\ (op' = "dispatching" /\ dispatch.pc = "idle") =>
              dispatch'.result.messagesSent = 0
        /\ (op' = "dispatching" /\ dispatch.pc = "sending") =>
              LET handler == dispatch.handlers[dispatch.i]
                  offered == handler.messages[dispatch.j]
                  taken == \E m \in ThreadMessages(messages', dispatch.threadId) :
                              /\ m.id = nextId
                              /\ m.content = offered.content
              IN  /\ taken = (nextId' = nextId + 1)
                  /\ ~taken => messages' = messages
                  /\ dispatch'.result.messagesSent =
                        dispatch.result.messagesSent + (IF taken THEN 1 ELSE 0)
        /\ (op' = "dispatching" /\ dispatch.pc = "loop") =>
              /\ dispatch'.result.messagesSent = dispatch.result.messagesSent
              /\ messages' = messages
        /\ op' = "dispatch" => ret'.messagesSent = dispatch.result.messagesSent
      ]_vars

\* C29 witness: a dispatch returned messagesSent = 2 after three sends, one
\* of which the store refused as a duplicate
C29_Witness ==
    /\ op = "dispatch"
    /\ Len(CallsOf(calls, "send")) = 3
    /\ Len(AcceptedSends(calls)) = 2
    /\ ret.messagesSent = 2

\* C30: every message a dispatch forwards to the store lands in the thread
\* of the dispatched snapshot, whatever threadId the handler put on it; its
\* sender is the handler's id when the handler left the sender empty and the
\* handler's sender otherwise; no step of a dispatch for one thread changes
\* the messages of another thread.
C30_ForwardedToTheSnapshotsThread ==
    [][ (op' = "dispatching" /\ dispatch.pc # "idle") =>
            /\ \A t \in Threads \ {dispatch.threadId} :
                  /\ t \in DOMAIN messages' <=> t \in DOMAIN messages
                  /\ GetOrEmpty(messages', t) = GetOrEmpty(messages, t)
            /\ nextId' # nextId =>
                  LET handler == dispatch.handlers[dispatch.i]
                      offered == handler.messages[dispatch.j]
                  IN  \E m \in ThreadMessages(messages', dispatch.threadId) :
                          /\ m.id = nextId
                          /\ m.threadId = dispatch.threadId
                          /\ m.content = offered.content
                          /\ m.from = IF offered.from = "" THEN handler.id ELSE offered.from
      ]_vars

\* C30 witness: thread-1 holds the insight the handlers addressed to
\* thread-2, under a handler's id, and thread-2 holds the warning they
\* addressed to thread-1, under the sender the handler gave
C30_Witness ==
    /\ \E m \in ThreadMessages(messages, "thread-1") :
          /\ m.content = InsightNoSender.content
          /\ m.threadId = "thread-1"
          /\ m.from \in { h.id : h \in Range(registry.handlers) }
    /\ \E m \in ThreadMessages(messages, "thread-2") :
          /\ m.content = WarningFromCustom.content
          /\ m.threadId = "thread-2"
          /\ m.from = WarningFromCustom.from

---------------------------------------------------------------------------
(* C25..C28: the retry loops *)

\* the reports of an exhausted loop in the log: onError calls and
\* console.error calls
Reports(log) == FilterSeq(log, { c \in Range(log) : c.call \in {"onError", "console.error"} })

\* the loop runs around a single function: the onTrigger callback of the
\* middleware or the handler passed to dispatchToObservers
SingleFunction == trigger.target \in {"onTrigger", "handler"}

\* C25: retry is applied per handler: when the observers of a registry were
\* executed with maxRetries = n, a handler that throws on every invocation
\* was invoked exactly n + 1 times, a handler that succeeds on attempt
\* j <= n + 1 was invoked exactly j times, whatever the other handlers did.
C25_RetryIsPerHandler ==
    (op = "executeObservers" /\ trigger.target = "registry") =>
        \A h \in Range(registry.handlers) :
            Invocations(calls, h.id) = Min(h.failures, trigger.maxRetries) + 1

\* C26: around a single function that fails on every attempt, with
\* maxRetries = n and an onError callback: the callback is invoked only as
\* the last call of the execution, after n + 1 invocations of the function,
\* with the error of the last invocation, the triggering snapshot and
\* attempts = n + 1; when the execution has ended, the function was invoked
\* exactly n + 1 times and the callback exactly once.
C26_ExhaustionReportedOnce ==
    (SingleFunction /\ trigger.failures > trigger.maxRetries /\ trigger.onError) =>
        /\ \A k \in 1 .. Len(calls) :
              calls[k].call = "onError" =>
                  /\ k = Len(calls)
                  /\ exec.pc = "idle"
                  /\ Invocations(calls, trigger.target) = trigger.maxRetries + 1
                  /\ calls[k].detail =
                        [error |-> [observerId |-> trigger.target,
                                    error |-> trigger.maxRetries + 1],
                         snapshot |-> [threadId |-> "thread-1", stepNumber |-> 1],
                         attempts |-> trigger.maxRetries + 1]
        /\ op = "executeObservers" =>
              /\ Invocations(calls, trigger.target) = trigger.maxRetries + 1
              /\ Len(CallsOf(calls, "onError")) = 1
              /\ Len(CallsOf(calls, "console.error")) = 0

\* C26 witness: executeObservers ended after three invocations of an
\* onTrigger callback that always throws, maxRetries being 2, and one call of
\* onError
C26_Witness ==
    /\ op = "executeObservers"
    /\ trigger.target = "onTrigger"
    /\ trigger.failures = AlwaysFails
    /\ trigger.maxRetries = 2
    /\ Invocations(calls, "onTrigger") = 3
    /\ calls[Len(calls)].call = "onError"
    /\ calls[Len(calls)].detail.attempts = 3

\* C26, the other loop: dispatchToObservers ended the same way
C26_WitnessContext ==
    /\ op = "executeObservers"
    /\ trigger.target = "handler"
    /\ trigger.failures = AlwaysFails
    /\ trigger.maxRetries = 2
    /\ Invocations(calls, "handler") = 3
    /\ calls[Len(calls)].call = "onError"

\* C27: around a single function that succeeds on an attempt after earlier
\* attempts failed, no attempt follows the first success and no error is
\* reported: onError is not invoked and nothing is logged.
C27_SuccessAfterFailuresReportsNothing ==
    (SingleFunction /\ trigger.failures <= trigger.maxRetries) =>
        /\ Reports(calls) = <<>>
        /\ Invocations(calls, trigger.target) <= trigger.failures + 1
        /\ op = "executeObservers" =>
              /\ Invocations(calls, trigger.target) = trigger.failures + 1
              /\ calls[Len(calls)].call = "handle"
              /\ ret = trigger.failures + 1

\* C27 witness: an execution ended at the third attempt, the first success
C27_Witness ==
    /\ op = "executeObservers"
    /\ SingleFunction
    /\ trigger.failures = 2
    /\ trigger.maxRetries = 2
    /\ Invocations(calls, trigger.target) = 3
    /\ Reports(calls) = <<>>

\* the delays of the sleeps of the log, in order, and the times of the
\* invocations of the single function
Sleeps(log) == [k \in 1 .. Len(CallsOf(log, "sleep")) |-> CallsOf(log, "sleep")[k].detail]
HandleTimes(log) == [k \in 1 .. Len(CallsOf(log, "handle")) |-> CallsOf(log, "handle")[k].detail]

\* C28: the delay waited after failed attempt i (from 0) is retryDelayMs *
\* 2^i; attempt i + 1 does not start before it has elapsed; no delay is
\* waited after the final failed attempt or after a success: an execution
\* that ended after a attempts waited a - 1 times, and the last call it made
\* is not a sleep.
C28_ExponentialBackoff ==
    /\ \A i \in 0 .. (Len(Sleeps(calls)) - 1) :
          /\ Sleeps(calls)[i + 1] = trigger.retryDelayMs * (2 ^ i)
          /\ i < trigger.maxRetries
    /\ SingleFunction =>
          \A i \in 0 .. (Len(HandleTimes(calls)) - 2) :
              /\ Len(Sleeps(calls)) > i
              /\ HandleTimes(calls)[i + 2] >= HandleTimes(calls)[i + 1] + Sleeps(calls)[i + 1]
    /\ op = "executeObservers" =>
          /\ Len(Sleeps(calls)) = ret - 1
          /\ \A k \in {Len(calls)} \ {0} : calls[k].call # "sleep"

\* C28 witness: an execution with retryDelayMs = 100 and maxRetries = 2
\* ended after sleeping 100 and then 200 milliseconds, the third attempt
\* starting late, after the 300th millisecond
C28_Witness ==
    /\ op = "executeObservers"
    /\ SingleFunction
    /\ trigger.retryDelayMs = 100
    /\ Sleeps(calls) = <<100, 200>>
    /\ Len(HandleTimes(calls)) = 3
    /\ HandleTimes(calls)[3] > 300

---------------------------------------------------------------------------
(* C31..C34: failures, modes and registration *)

\* the handlers the log shows were invoked and threw
Thrown(log) == { h \in Reached(log) : ~Rejected(h) /\ Throws(h) }

\* C31: with continueOnError true, a dispatch always resolves, and a handler
\* that threw is recorded exactly once in errors, reported exactly once to
\* onObserverError when there is one, not counted in observersRun, and
\* every handler ranking after it was reached unless an invoked handler
\* short-circuited the dispatch.  With continueOnError false, a dispatch in
\* which a handler threw rejects with that handler's error, and no handler
\* ranking after it received any call.
C31_HandlerFailuresAreIsolated ==
    /\ registry.continueOnError =>
          /\ op # "dispatchThrew"
          /\ op = "dispatch" =>
                /\ ret.observersRun =
                      Cardinality({ h \in Reached(calls) : ~Rejected(h) /\ ~Throws(h) })
                /\ \A h \in Thrown(calls) :
                      /\ Cardinality({ k \in 1 .. Len(ret.errors) :
                                          ret.errors[k].observerId = h.id }) = 1
                      /\ Cardinality({ k \in 1 .. Len(calls) :
                                          /\ calls[k].call = "onObserverError"
                                          /\ calls[k].id = h.id })
                            = IF registry.onObserverError THEN 1 ELSE 0
                      /\ ~ret.shortCircuited =>
                            \A g \in Range(registry.handlers) :
                                RanksBefore(h, g) => g \in Reached(calls)
    /\ ~registry.continueOnError =>
          /\ op = "dispatch" => Thrown(calls) = {}
          /\ op = "dispatchThrew" =>
                /\ Cardinality(Thrown(calls)) = 1
                /\ \A h \in Thrown(calls) :
                      /\ ret = <<[observerId |-> h.id, error |-> 1]>>
                      /\ \A g \in Range(registry.handlers) :
                            RanksBefore(h, g) => g \notin Reached(calls)

\* C31 witness: a dispatch with continueOnError true resolved after the
\* first handler in rank threw, was reported to onObserverError, and the two
\* after it ran
C31_Witness ==
    /\ op = "dispatch"
    /\ registry.continueOnError
    /\ registry.onObserverError
    /\ Len(ret.errors) = 1
    /\ ret.observersRun = 2
    /\ \A h \in Thrown(calls) :
          Cardinality({ g \in Reached(calls) : RanksBefore(h, g) }) = 2

\* C31, the other mode: a dispatch with continueOnError false rejected at
\* the first handler in rank and left two handlers without a call
C31_WitnessStopOnFirstError ==
    /\ op = "dispatchThrew"
    /\ Len(registry.handlers) = 3
    /\ Cardinality(Reached(calls)) = 1

\* The retry sequence of the last execution is over: the loop was left after
\* at least one attempt, no timer is pending, and around a single function the
\* last invocation either succeeded or was the one of attempt maxRetries.
SequenceOver ==
    /\ exec.pc = "idle"
    /\ dispatch.pc = "idle"
    /\ exec.attempts >= 1
    /\ \A k \in {Len(calls)} \ {0} : calls[k].call # "sleep"
    /\ SingleFunction =>
          /\ Invocations(calls, trigger.target) = exec.attempts
          /\ \/ exec.attempts > trigger.failures
             \/ exec.attempts = trigger.maxRetries + 1

C32_WitnessFireAndForget ==
    /\ ~trigger.await
    /\ caller.pc = "resolved"
    /\ exec.pc = "sleeping"

\* The last execution is over and a handler failed for good in it: every
\* invocation it was given threw.
ExhaustedFailure ==
    /\ exec.pc = "idle"
    /\ dispatch.pc = "idle"
    /\ exec.attempts >= 1
    /\ IF SingleFunction
       THEN Invocations(calls, trigger.target) \in 1 .. trigger.failures
       ELSE \E h \in Range(registry.handlers) :
                Invocations(calls, h.id) \in 1 .. h.failures

\* C33: a handler failure never reaches the caller: the promise returned by
\* dispatchToObservers and by afterGenerate is never rejected, in both modes,
\* with and without an error callback, for every maxRetries; and the
\* exhausted failure is made observable exactly once, through the error
\* callback when one is configured and through the log otherwise.
C33_HandlerFailureNeverReachesTheCaller ==
    /\ caller.pc # "rejected"
    /\ Len(Reports(calls)) <= 1
    /\ ExhaustedFailure =>
          /\ Len(Reports(calls)) = 1
          /\ Reports(calls)[1].call =
                IF trigger.onError THEN "onError" ELSE "console.error"

\* the part of C33 that the code keeps: no rejection reaches the caller, and
\* around a single function, or around a registry that stops on the first
\* error, the exhausted failure is reported exactly once
C33_SingleFunctionFailureReportedOnce ==
    /\ caller.pc # "rejected"
    /\ Len(Reports(calls)) <= 1
    /\ (ExhaustedFailure /\ (SingleFunction \/ ~registry.continueOnError)) =>
          /\ Len(Reports(calls)) = 1
          /\ Reports(calls)[1].call =
                IF trigger.onError THEN "onError" ELSE "console.error"

\* the handler registered under an id, in a one-element set, or no handler
Registered(handlers, id) == { h \in Range(handlers) : h.id = id }

\* C34: register with an id that is currently registered fails with the
\* 'already registered' error and leaves the registry unchanged: the original
\* handler stays under that id and the size is the same.  register with an id
\* that is not registered, be it one that was unregistered before, succeeds
\* and puts the handler under that id; unregister removes the handler of that
\* id and no other.  At all times at most one handler is registered per id.
C34_DuplicateIdIsRejected ==
    [][ /\ \A h \in RegistryHandlers :
              Register(h) =>
                  IF Registered(registry.handlers, h.id) # {}
                  THEN /\ op' = "registerThrew"
                       /\ ret' = AlreadyRegistered(h.id)
                       /\ registry' = registry
                  ELSE /\ op' = "register"
                       /\ Registered(registry'.handlers, h.id) = {h}
                       /\ Len(registry'.handlers) = Len(registry.handlers) + 1
                       /\ \A k \in 1 .. MaxHandlers :
                             HandlerId(k) # h.id =>
                                Registered(registry'.handlers, HandlerId(k))
                                   = Registered(registry.handlers, HandlerId(k))
        /\ \A k \in 1 .. MaxHandlers :
              Unregister(HandlerId(k)) =>
                  /\ Registered(registry'.handlers, HandlerId(k)) = {}
                  /\ ret' = (Registered(registry.handlers, HandlerId(k)) # {})
                  /\ \A j \in (1 .. MaxHandlers) \ {k} :
                        Registered(registry'.handlers, HandlerId(j))
                           = Registered(registry.handlers, HandlerId(j))
        /\ \A j, k \in 1 .. Len(registry'.handlers) :
              registry'.handlers[j].id = registry'.handlers[k].id => j = k
      ]_vars

\* a handler was passed to register under the id of a registered handler of
\* another priority, register threw, and the first handler is still the one
\* registered
C34_Witness ==
    /\ op = "registerThrew"
    /\ Len(calls) = 2
    /\ calls[1].call = "register"
    /\ calls[1].id = calls[2].id
    /\ calls[1].detail # calls[2].detail
    /\ registry.handlers = <<calls[1].detail>>

\* an id was registered, rejected at a second register, unregistered, and
\* registered again with another handler
C34_WitnessRegisteredAgain ==
    /\ op = "register"
    /\ Len(calls) = 4
    /\ \A k \in 1 .. 4 : calls[k].id = "h1"
    /\ calls[3].call = "unregister"
    /\ calls[3].detail
    /\ calls[4].detail # calls[1].detail
    /\ registry.handlers = <<calls[4].detail>>

\* C35: gc(threadId, currentStep) removes the old snapshots of the thread:
\* after it, getSnapshots returns, for no limit, a snapshot whose step number
\* lies before currentStep - snapshotRetentionSteps.
C35_GcRemovesOldSnapshots ==
    [][\A t \in Threads : \A s \in GcSteps :
          (op' = "gc" /\ Gc(t, s)) =>
              \A limit \in SnapshotLimits :
                  \A old \in Range(getSnapshots(t, limit)') :
                      old.stepNumber >= s - config.snapshotRetentionSteps]_vars

\* what gc does to the snapshot logs: nothing
C35_GcLeavesSnapshots ==
    [][op' = "gc" => snapshots' = snapshots]_vars

\* the stored message of an id, in a one-element set, or no message
MessageOf(map, id) == { m \in AllMessages(map) : m.id = id }

\* C36: when transformParams(thread, s) is followed by its
\* afterGenerate(thread) before the next transformParams, afterGenerate marks
\* as incorporated at step s exactly the messages transformParams selected:
\* each of them that is still stored afterwards is incorporated at s, and
\* every other message keeps its status.  Each message is put into the
\* prompt of at most one step, and a message that is incorporated was put
\* into the prompt of the step it was incorporated at and of no later one.
C36_InjectedOnceThenIncorporated ==
    /\ [](/\ \A x, y \in injected : x.id = y.id => x.stepNumber = y.stepNumber
          /\ \A m \in AllMessages(messages) :
                m.incorporatedAtStep # Null =>
                    [id |-> m.id, stepNumber |-> m.incorporatedAtStep] \in injected
          /\ op = "transformParams" =>
                \A k \in 1 .. Len(ret) : ret[k].incorporatedAtStep = Null)
    /\ [][\A t \in DOMAIN stepStates :
             AfterGenerate(t) =>
                LET selected == Range(stepStates[t].pendingMessageIds)
                    s == stepStates[t].stepNumber
                IN  \A m \in AllMessages(messages') :
                        \E before \in MessageOf(messages, m.id) :
                            m = IF m.id \in selected
                                THEN [before EXCEPT !.incorporatedAtStep = s]
                                ELSE before]_vars

\* a message sent during step 1 was put into the prompt of step 2 and
\* incorporated at step 2, and transformParams of step 3 selected another
\* message and not that one
C36_Witness ==
    /\ op = "transformParams"
    /\ stepStates["thread-1"].stepNumber = 3
    /\ Len(ret) >= 1
    /\ \E m \in AllMessages(messages) :
          /\ m.incorporatedAtStep = 2
          /\ m.sentAtStep = 1
          /\ [id |-> m.id, stepNumber |-> 2] \in injected
          /\ \A k \in 1 .. Len(ret) : ret[k].id # m.id

\* C37: a message is never put into a prompt after it has expired:
\* transformParams(thread, s) selects no message whose expiresAtStep is <= s,
\* even when gc has not collected it.
C37_ExpiredIsNeverInjected ==
    op = "transformParams" =>
        \A t \in DOMAIN stepStates : \A k \in 1 .. Len(ret) :
            ret[k].threadId = t =>
                ~(ret[k].expiresAtStep # Null
                     /\ ret[k].expiresAtStep <= stepStates[t].stepNumber)

\* C38: when send returns true, the accepted message is in the store when
\* send returns: with maxMessagesPerThread >= 1 the capacity enforcement of
\* that send does not evict the message that was just accepted.
C38_AcceptedMessageIsStored ==
    (op = "send" /\ ret = TRUE /\ config.maxMessagesPerThread >= 1) =>
        \E m \in AllMessages(messages) : m.id = nextId - 1

\* what the code keeps of C38: the accepted message is evicted by its own
\* send only when it is among the evicted, and then the thread is full of
\* messages that are all pending and were all sent at a later step
C38_AcceptedIsEvictedOnlyAsTheOldestPending ==
    (op = "send" /\ ret = TRUE /\ config.maxMessagesPerThread >= 1) =>
        \/ \E m \in AllMessages(messages) : m.id = nextId - 1
        \/ \E gone \in removed :
              /\ gone.id = nextId - 1
              /\ \A m \in ThreadMessages(messages, gone.threadId) :
                    /\ m.incorporatedAtStep = Null
                    /\ m.sentAtStep > gone.sentAtStep
              /\ Len(messages[gone.threadId]) = config.maxMessagesPerThread

C40_ManagersAreIndependent ==
    [][/\ \A k \in 1 .. Len(managers) : \A policy \in PoliciesSet :
             SetPolicy(k, policy) =>
                /\ defaultPolicies' = defaultPolicies
                /\ \A j \in (1 .. Len(managers)) \ {k} : \A type \in MessageTypes :
                      getPolicyOf(managers'[j], type) = getPolicyOf(managers[j], type)
       /\ NewManager(EmptyRecord) =>
             \A type \in MessageTypes :
                getPolicyOf(managers'[Len(managers')], type)
                   = DEFAULT_RETENTION_CONFIG.policyMap[type]]_vars

\* what the code keeps of C40: the managers that exist when setPolicy is
\* called on another manager go on applying the policies they applied
C40_ExistingManagersKeepTheirPolicies ==
    [][\A k \in 1 .. Len(managers) : \A policy \in PoliciesSet :
          SetPolicy(k, policy) =>
             \A j \in (1 .. Len(managers)) \ {k} : \A type \in MessageTypes :
                getPolicyOf(managers'[j], type) = getPolicyOf(managers[j], type)]_vars

====
